---- MODULE Spec2Model ----
(***************************************************************************)
(* Ingestion pipeline of the HMPI backend: the upload handler              *)
(* (controllers/dataController.js), the spreadsheet extractor              *)
(* (utils/excelParser.js), the index calculator (utils/hmpiCalculator.js), *)
(* the temporary-file helper (utils/fileUploader.js) and the PollutionData *)
(* collection (models/PollutionData.js) seen through Mongoose.             *)
(*                                                                         *)
(* Concentrations are integers.  A cell holds a whole number of its header *)
(* unit; normalised concentrations are counted in micrograms per litre     *)
(* (0.001 mg/L), so the standards table is the source table times 1000.    *)
(* Index values are counted in hundredths (Math.round(x * 100) / 100).     *)
(***************************************************************************)
EXTENDS Integers, Sequences, FiniteSets, TLC

\* an absent or null value is the empty tuple, a present one a 1-tuple
None == <<>>
Some(v) == <<v>>

\* ---------------------------------------------------------------- bounds
NumReqs == 2
MaxRejected == 2

\* ------------------------------------------------------ program constants
maxFileSize == 10485760
batchSize == 100
sampleLimit == 5

\* ------------------------------------------------------------- utilities
Min(a, b) == IF a < b THEN a ELSE b

RECURSIVE SumOver(_, _)
SumOver(S, f) ==
  IF S = {} THEN 0
  ELSE LET x == CHOOSE y \in S : TRUE IN f[x] + SumOver(S \ {x}, f)

RECURSIVE ProdOver(_, _)
ProdOver(S, f) ==
  IF S = {} THEN 1
  ELSE LET x == CHOOSE y \in S : TRUE IN f[x] * ProdOver(S \ {x}, f)

\* Array.prototype.slice(0, n)
Slice(s, n) == SubSeq(s, 1, Min(Len(s), n))

\* JavaScript truthiness of a number-or-absent value
Falsy(x) == x = None \/ x = Some(0)

\* ----------------------------------------------------- hmpiCalculator.js
\* String.prototype.toUpperCase on the symbols the extractor can produce
toUpperCase ==
  [m \in {"Fe", "As", "U", "Pb", "Hg", "Cd", "Cr", "Ni", "Zn", "Cu", "Mn"} |->
     CASE m = "Fe" -> "FE" [] m = "As" -> "AS" [] m = "U" -> "U"
       [] m = "Pb" -> "PB" [] m = "Hg" -> "HG" [] m = "Cd" -> "CD"
       [] m = "Cr" -> "CR" [] m = "Ni" -> "NI" [] m = "Zn" -> "ZN"
       [] m = "Cu" -> "CU" [] m = "Mn" -> "MN"]

\* IS 10500:2012 table, in micrograms per litre
drinkingWaterStandards ==
  [k \in {"AS", "CD", "CR", "CU", "PB", "HG", "NI", "ZN", "FE", "U"} |->
     CASE k = "AS" -> [permissible |-> 50, ideal |-> 10, weightage |-> 5]
       [] k = "CD" -> [permissible |-> 5, ideal |-> 3, weightage |-> 5]
       [] k = "CR" -> [permissible |-> 50, ideal |-> 0, weightage |-> 4]
       [] k = "CU" -> [permissible |-> 1500, ideal |-> 0, weightage |-> 1]
       [] k = "PB" -> [permissible |-> 10, ideal |-> 0, weightage |-> 5]
       [] k = "HG" -> [permissible |-> 2, ideal |-> 1, weightage |-> 5]
       [] k = "NI" -> [permissible |-> 70, ideal |-> 20, weightage |-> 2]
       [] k = "ZN" -> [permissible |-> 15000, ideal |-> 5000, weightage |-> 1]
       [] k = "FE" -> [permissible |-> 300, ideal |-> 0, weightage |-> 2]
       [] k = "U" -> [permissible |-> 30, ideal |-> 0, weightage |-> 4]]

\* Numbers that need not be whole are carried as exact fractions [num, den]
\* in lowest terms, den > 0.
RECURSIVE GCD(_, _)
GCD(a, b) == IF b = 0 THEN a ELSE GCD(b, a % b)

Abs(a) == IF a < 0 THEN -a ELSE a

Fraction(num, den) ==
  LET g == GCD(Abs(num), den)
  IN [num |-> num \div g, den |-> den \div g]

\* k times the fraction a
FracScale(k, a) == Fraction(k * a.num, a.den)

\* the conversionFactors table of normalizeToMgL ("ug/L" is its key for
\* micrograms per litre)
conversionFactors ==
  [u \in {"mg/L", "ppm", "ppb", "ug/L", "g/L", "ng/L"} |->
     CASE u = "mg/L" -> [num |-> 1, den |-> 1]
       [] u = "ppm" -> [num |-> 1, den |-> 1]
       [] u = "ppb" -> [num |-> 1, den |-> 1000]
       [] u = "ug/L" -> [num |-> 1, den |-> 1000]
       [] u = "g/L" -> [num |-> 1000, den |-> 1]
       [] u = "ng/L" -> [num |-> 1, den |-> 1000000]]

\* conversionFactors[unit] || 1
conversionFactor(unit) ==
  IF unit \in {"mg/L", "ppm", "ppb", "ug/L", "g/L", "ng/L"}
  THEN conversionFactors[unit] ELSE [num |-> 1, den |-> 1]

\* value * (conversionFactors[unit] || 1), in mg/L
normalizeToMgL(value, unit) == FracScale(value, conversionFactor(unit))

\* the metals of a reading map that have a standard entry
Matched(heavyMetalValues) ==
  {m \in DOMAIN heavyMetalValues : toUpperCase[m] \in DOMAIN drinkingWaterStandards}

\* a variant whose Safe band includes the threshold
interpretHPIInclusive(num, den) ==
  IF num <= 100 * den THEN [category |-> "Low pollution", level |-> "Safe"]
  ELSE [category |-> "High pollution", level |-> "Unsafe"]

\* interpretHPI of the value num/den
interpretHPI(num, den) ==
  IF num < 100 * den THEN [category |-> "Low pollution", level |-> "Safe"]
  ELSE IF num = 100 * den THEN [category |-> "Near threshold", level |-> "Warning"]
  ELSE [category |-> "High pollution", level |-> "Unsafe"]

\* HPI as the exact fraction num/den: sum(Wi*Qi)/sum(Wi), Qi = (Mi-Ii)/(Si-Ii)*100.
\* The standards table is in micrograms per litre, so Mi is taken a thousandfold:
\* Qi = (Mi.num - Ii*Mi.den) * 100 / Di, Di = Mi.den * (Si - Ii).
\* value is Math.round(hpi * 100), in hundredths.  ok = FALSE is the throw.
weightedMeanHPI(ms, Mi) ==
  LET std(m) == drinkingWaterStandards[toUpperCase[m]]
      Di == [m \in ms |-> Mi[m].den * (std(m).permissible - std(m).ideal)]
      Wi == [m \in ms |-> std(m).weightage]
      term == [m \in ms |->
                 Wi[m] * (Mi[m].num - std(m).ideal * Mi[m].den) * 100
                 * ProdOver(ms \ {m}, Di)]
  IN [totalWeight |-> SumOver(ms, Wi),
      num |-> SumOver(ms, term),
      den |-> SumOver(ms, Wi) * ProdOver(ms, Di)]

\* the object calculateHPI returns for the value hpi, a fraction
roundedHPI(hpi, metalCount) ==
  [ok |-> TRUE,
   value |-> (200 * hpi.num + hpi.den) \div (2 * hpi.den),
   interpretation |-> interpretHPI(hpi.num, hpi.den),
   metalCount |-> metalCount]

\* the result for the sums of the loop over the metals
resultOfHPI(sums, metalCount) ==
  IF sums.totalWeight = 0
  THEN [ok |-> FALSE, error |-> "No valid metals found for HPI calculation"]
  ELSE roundedHPI(Fraction(sums.num, sums.den), metalCount)

calculateHPI(heavyMetalValues) ==
  resultOfHPI(
    weightedMeanHPI(
      Matched(heavyMetalValues),
      [m \in Matched(heavyMetalValues) |->
         FracScale(1000, normalizeToMgL(heavyMetalValues[m].value,
                                        heavyMetalValues[m].unit))]),
    Cardinality(Matched(heavyMetalValues)))

validateInputData(heavyMetalValues) ==
  LET errors ==
        (IF DOMAIN heavyMetalValues = {}
         THEN <<"At least one heavy metal value is required">> ELSE <<>>)
        \o (IF \E m \in DOMAIN heavyMetalValues : heavyMetalValues[m].value < 0
            THEN <<"Invalid value for metal: must be a non-negative number">>
            ELSE <<>>)
  IN [isValid |-> Len(errors) = 0, errors |-> errors]

\* The six other index functions, restricted to whether they throw and to
\* the number of metals they cover.  Their tables (backgroundConcentrations,
\* toxicResponseFactors, referenceDoses) have the keys of
\* drinkingWaterStandards, and all their entries are non-zero.
calculateNemerowIndex(heavyMetalValues) ==
  IF Matched(heavyMetalValues) = {}
  THEN [ok |-> FALSE, error |-> "No valid metals found for Nemerow Index calculation"]
  ELSE [ok |-> TRUE, metalCount |-> Cardinality(Matched(heavyMetalValues))]

calculateContaminationFactors(heavyMetalValues) ==
  [ok |-> TRUE, metalCount |-> Cardinality(Matched(heavyMetalValues))]

calculatePLI(heavyMetalValues) ==
  IF calculateContaminationFactors(heavyMetalValues).metalCount = 0
  THEN [ok |-> FALSE, error |-> "No valid metals found for PLI calculation"]
  ELSE [ok |-> TRUE, metalCount |-> Cardinality(Matched(heavyMetalValues))]

calculateGeoaccumulationIndex(heavyMetalValues) ==
  [ok |-> TRUE, metalCount |-> Cardinality(Matched(heavyMetalValues))]

calculateEcologicalRiskIndex(heavyMetalValues) ==
  [ok |-> TRUE, metalCount |-> Cardinality(Matched(heavyMetalValues))]

calculateHealthRiskIndex(heavyMetalValues) ==
  [ok |-> TRUE, metalCount |-> Cardinality(Matched(heavyMetalValues))]

\* the first of a sequence of outcomes that is a throw, or 0
RECURSIVE firstThrow(_, _)
firstThrow(outcomes, i) ==
  IF i > Len(outcomes) THEN 0
  ELSE IF ~outcomes[i].ok THEN i ELSE firstThrow(outcomes, i + 1)

\* ok = FALSE is `throw new Error("Comprehensive assessment failed: ...")`:
\* the indices are computed in one try block, so the first one that throws
\* ends the assessment.
assessmentOf(validation, computed) ==
  LET thrown == firstThrow(computed, 1)
  IN IF ~validation.isValid
     THEN [ok |-> FALSE, error |-> "Validation failed"]
     ELSE IF thrown # 0 THEN [ok |-> FALSE, error |-> computed[thrown].error]
     ELSE [ok |-> TRUE, hpi |-> computed[1]]

\* the seven index functions, in the order the try block calls them
computeIndices(heavyMetalValues) ==
  <<calculateHPI(heavyMetalValues),
    calculateNemerowIndex(heavyMetalValues),
    calculateContaminationFactors(heavyMetalValues),
    calculatePLI(heavyMetalValues),
    calculateGeoaccumulationIndex(heavyMetalValues),
    calculateEcologicalRiskIndex(heavyMetalValues),
    calculateHealthRiskIndex(heavyMetalValues)>>

calculateComprehensiveAssessment(heavyMetalValues) ==
  assessmentOf(validateInputData(heavyMetalValues), computeIndices(heavyMetalValues))

\* line 11
cacheExpiry == 5 * 60 * 1000

\* the categories and formula types asked for
Categories == {"BIS"}

FormulaTypes == {"HMPI"}

\* cacheKey of getHeavyMetalStandards: `standards_${category}`
standardsKey(category) == <<"standards", category>>

\* cacheKey of getFormulaConfig: `formula_${type}`
formulaKey(type) == <<"formula", type>>

\* the keys the caches can hold; a Map is a function on them whose value is
\* None where the Map has no entry
StandardsKeys == {standardsKey(c) : c \in Categories}

FormulaKeys == {formulaKey(t) : t \in FormulaTypes}

\* the test of lines 53 and 90 with <= for <
servedFromCacheInclusive(cached, time) ==
  cached # None /\ time - cached[1].timestamp <= cacheExpiry

\* cached && (Date.now() - cached.timestamp) < this.cacheExpiry
servedFromCache(cached, time) ==
  cached # None /\ time - cached[1].timestamp < cacheExpiry

\* this.standardsCache.set(cacheKey, {data, timestamp: Date.now()})
cacheSet(cache, cacheKey, data, time) ==
  [cache EXCEPT ![cacheKey] = Some([data |-> data, timestamp |-> time])]

\* Map.prototype.clear
cleared(cache) == [k \in DOMAIN cache |-> None]

\* --------------------------------------------------------- excelParser.js
\* Text the parser inspects character by character (headers, patterns, unit
\* tokens) is a sequence of characters; "mu" is the micro sign.
LowerCaseLetters ==
  <<"a", "b", "c", "d", "e", "f", "g", "h", "i", "j", "k", "l", "m",
    "n", "o", "p", "q", "r", "s", "t", "u", "v", "w", "x", "y", "z">>

UpperCaseLetters ==
  <<"A", "B", "C", "D", "E", "F", "G", "H", "I", "J", "K", "L", "M",
    "N", "O", "P", "Q", "R", "S", "T", "U", "V", "W", "X", "Y", "Z">>

Digits == {"0", "1", "2", "3", "4", "5", "6", "7", "8", "9"}

\* String.prototype.toUpperCase, one character
charToUpperCase(c) ==
  IF \E i \in 1 .. 26 : LowerCaseLetters[i] = c
  THEN UpperCaseLetters[CHOOSE i \in 1 .. 26 : LowerCaseLetters[i] = c]
  ELSE IF c = "mu" THEN "MU" ELSE c

\* String.prototype.toLowerCase, one character
charToLowerCase(c) ==
  IF \E i \in 1 .. 26 : UpperCaseLetters[i] = c
  THEN LowerCaseLetters[CHOOSE i \in 1 .. 26 : UpperCaseLetters[i] = c]
  ELSE IF c = "MU" THEN "mu" ELSE c

upperCased(s) == [i \in 1 .. Len(s) |-> charToUpperCase(s[i])]

lowerCased(s) == [i \in 1 .. Len(s) |-> charToLowerCase(s[i])]

\* the \s of the patterns
isSpace(c) == c = " "

\* String.prototype.trim
RECURSIVE trim(_)
trim(s) ==
  IF s # <<>> /\ isSpace(Head(s)) THEN trim(Tail(s))
  ELSE IF s # <<>> /\ isSpace(s[Len(s)]) THEN trim(SubSeq(s, 1, Len(s) - 1))
  ELSE s

\* p occurs in s from position i on
occursAt(s, p, i) ==
  i >= 1 /\ i + Len(p) - 1 <= Len(s) /\ SubSeq(s, i, i + Len(p) - 1) = p

startsWith(s, p) == occursAt(s, p, 1)

\* String.prototype.includes
includes(s, p) == \E i \in 1 .. Len(s) + 1 : occursAt(s, p, i)

\* s.replace(/[()]/g, '')
RECURSIVE withoutParentheses(_)
withoutParentheses(s) ==
  IF s = <<>> THEN <<>>
  ELSE IF Head(s) \in {"(", ")"} THEN withoutParentheses(Tail(s))
  ELSE <<Head(s)>> \o withoutParentheses(Tail(s))

\* this.heavyMetals, in the order the constructor lists them
heavyMetals == <<"Fe", "As", "U", "Pb", "Hg", "Cd", "Cr", "Ni", "Zn", "Cu", "Mn">>

\* the characters of a metal symbol
chars(metal) ==
  CASE metal = "Fe" -> <<"F", "e">> [] metal = "As" -> <<"A", "s">>
    [] metal = "U" -> <<"U">> [] metal = "Pb" -> <<"P", "b">>
    [] metal = "Hg" -> <<"H", "g">> [] metal = "Cd" -> <<"C", "d">>
    [] metal = "Cr" -> <<"C", "r">> [] metal = "Ni" -> <<"N", "i">>
    [] metal = "Zn" -> <<"Z", "n">> [] metal = "Cu" -> <<"C", "u">>
    [] metal = "Mn" -> <<"M", "n">>

\* the unit tokens of the second pattern of extractUnit, lower-cased
unitTokens ==
  { <<"p", "p", "m">>, <<"p", "p", "b">>, <<"m", "g", "/", "l">>,
    <<"mu", "g", "/", "l">>, <<"u", "g", "/", "l">> }

\* the string a unit token spells; the micro sign is spelled "u" in the
\* strings of the model, so "ug/L" is the 'μg/L' of the source
text(unit) ==
  CASE unit = <<>> -> ""
    [] unit = <<"p", "p", "m">> -> "ppm"
    [] unit = <<"p", "p", "b">> -> "ppb"
    [] unit = <<"m", "g", "/", "l">> -> "mg/l"
    [] unit = <<"mu", "g", "/", "l">> -> "ug/l"
    [] unit = <<"m", "g", "/", "k", "g">> -> "mg/kg"
    [] unit = <<"p", "p", "t">> -> "ppt"

\* /\(([^)]+)\)/: the first "(" followed by one or more characters other than
\* ")" and then ")"; the match runs from i to k
firstParenthesized(header) ==
  LET opens == {i \in 1 .. Len(header) :
                  /\ header[i] = "("
                  /\ \E k \in i + 2 .. Len(header) :
                       /\ header[k] = ")"
                       /\ \A j \in i + 1 .. k - 1 : header[j] # ")"}
  IN IF opens = {} THEN None
     ELSE LET i == CHOOSE o \in opens : \A p \in opens : o <= p
              k == CHOOSE c \in i + 2 .. Len(header) :
                     /\ header[c] = ")"
                     /\ \A j \in i + 1 .. c - 1 : header[j] # ")"
          IN Some(SubSeq(header, i, k))

\* /\s+(ppm|ppb|mg\/L|μg\/L|ug\/L)\s*/gi: the first run of white space that
\* a unit token follows, in any letter case; the match is that white space,
\* the token and the white space after it
firstTrailingUnit(header) ==
  LET found == {<<i, j, t>> \in (1 .. Len(header)) \X (1 .. Len(header)) \X unitTokens :
                  /\ i < j
                  /\ \A k \in i .. j - 1 : isSpace(header[k])
                  /\ occursAt(lowerCased(header), t, j)}
  IN IF found = {} THEN None
     ELSE LET i == CHOOSE o \in {f[1] : f \in found} :
                     \A p \in {f[1] : f \in found} : o <= p
              m == CHOOSE f \in found : f[1] = i
          IN Some(SubSeq(header, m[2], m[2] + Len(m[3]) - 1))

\* the switch of extractUnit on the lower-cased token
normalizeUnit(unit) ==
  CASE unit = <<"u", "g", "/", "l">> -> "ug/L"
    [] unit = <<"m", "g", "/", "l">> -> "mg/L"
    [] unit = <<"p", "p", "m">> -> "ppm"
    [] unit = <<"p", "p", "b">> -> "ppb"
    [] OTHER -> text(unit)

extractUnit(header) ==
  IF header = <<>> THEN "ppm"
  ELSE LET parenthesized == firstParenthesized(header)
           trailing == firstTrailingUnit(header)
       IN IF parenthesized # None
          THEN normalizeUnit(lowerCased(trim(withoutParentheses(parenthesized[1]))))
          ELSE IF trailing # None
          THEN normalizeUnit(lowerCased(trim(trailing[1])))
          ELSE "ppm"

\* new RegExp(`^${metalUpper}\\s*\\(.*\\)$`)
matchesParenthesized(cleanHeader, metalUpper) ==
  /\ startsWith(cleanHeader, metalUpper)
  /\ cleanHeader[Len(cleanHeader)] = ")"
  /\ \E j \in Len(metalUpper) + 1 .. Len(cleanHeader) - 1 :
       /\ cleanHeader[j] = "("
       /\ \A k \in Len(metalUpper) + 1 .. j - 1 : isSpace(cleanHeader[k])

\* new RegExp(`^${metalUpper}\\s*-.*$`)
matchesDashed(cleanHeader, metalUpper) ==
  /\ startsWith(cleanHeader, metalUpper)
  /\ \E j \in Len(metalUpper) + 1 .. Len(cleanHeader) :
       /\ cleanHeader[j] = "-"
       /\ \A k \in Len(metalUpper) + 1 .. j - 1 : isSpace(cleanHeader[k])

\* new RegExp(`^${metalUpper}\\s+.*$`)
matchesSpaced(cleanHeader, metalUpper) ==
  /\ startsWith(cleanHeader, metalUpper)
  /\ Len(cleanHeader) > Len(metalUpper)
  /\ isSpace(cleanHeader[Len(metalUpper) + 1])

\* new RegExp(`.*${metalUpper}.*\\(.*\\).*`)
matchesAnywhere(cleanHeader, metalUpper) ==
  \E i \in 1 .. Len(cleanHeader) :
    /\ occursAt(cleanHeader, metalUpper, i)
    /\ \E j \in i + Len(metalUpper) .. Len(cleanHeader) :
         /\ cleanHeader[j] = "("
         /\ \E k \in j + 1 .. Len(cleanHeader) : cleanHeader[k] = ")"

\* some pattern of the list tests true
matchesPattern(cleanHeader, metalUpper) ==
  \/ matchesParenthesized(cleanHeader, metalUpper)
  \/ matchesDashed(cleanHeader, metalUpper)
  \/ matchesSpaced(cleanHeader, metalUpper)
  \/ matchesAnywhere(cleanHeader, metalUpper)

NoColumns == [m \in {} |-> 0]

\* metalColumns[metal] = {...}; detectedMetals.push(metal)
bindColumn(acc, metal, index, header) ==
  [metalColumns |->
     [m \in DOMAIN acc.metalColumns \cup {metal} |->
        IF m = metal
        THEN [index |-> index, originalHeader |-> header,
              unit |-> extractUnit(header)]
        ELSE acc.metalColumns[m]],
   detectedMetals |-> Append(acc.detectedMetals, metal)]

\* the loop over this.heavyMetals for one header, from the k-th symbol on: an
\* exact match leaves the loop, a pattern match leaves only the pattern loop
RECURSIVE testMetals(_, _, _, _)
testMetals(acc, header, index, k) ==
  IF k > Len(heavyMetals) THEN acc
  ELSE LET metal == heavyMetals[k]
           metalUpper == upperCased(chars(metal))
           cleanHeader == upperCased(trim(header))
       IN IF cleanHeader = metalUpper
          THEN bindColumn(acc, metal, index, header)
          ELSE IF matchesPattern(cleanHeader, metalUpper)
          THEN testMetals(bindColumn(acc, metal, index, header), header, index, k + 1)
          ELSE testMetals(acc, header, index, k + 1)

\* headers.forEach, from the i-th header on (its index is i - 1)
RECURSIVE forEachHeader(_, _, _)
forEachHeader(acc, headers, i) ==
  IF i > Len(headers) THEN acc
  ELSE forEachHeader(IF headers[i] = <<>> THEN acc
                     ELSE testMetals(acc, headers[i], i - 1, 1),
                     headers, i + 1)

\* the object detectHeavyMetalColumns returns
detected(res) ==
  [metalColumns |-> res.metalColumns,
   detectedMetals |-> res.detectedMetals,
   totalDetected |-> Len(res.detectedMetals)]

detectHeavyMetalColumns(headers) ==
  detected(forEachHeader([metalColumns |-> NoColumns, detectedMetals |-> <<>>],
                         headers, 1))

\* One data row is the array of its cells, in the order of the headers: every
\* cell is None when empty, else Some(text) in the location column and
\* Some(number) in the others.
\* the name, latitude, longitude and year entries of locationPatterns
locationPatterns ==
  [name |-> {<<"l", "o", "c", "a", "t", "i", "o", "n">>, <<"p", "l", "a", "c", "e">>, <<"s", "i", "t", "e">>, <<"a", "r", "e", "a">>, <<"l", "o", "c", "a", "l", "i", "t", "y">>},
   latitude |-> {<<"l", "a", "t", "i", "t", "u", "d", "e">>, <<"l", "a", "t">>,
                 <<"y">>, <<"c", "o", "o", "r", "d", "_", "y">>},
   longitude |-> {<<"l", "o", "n", "g", "i", "t", "u", "d", "e">>, <<"l", "o", "n">>, <<"l", "n", "g">>,
                  <<"x">>, <<"c", "o", "o", "r", "d", "_", "x">>},
   year |-> {<<"y", "e", "a", "r">>,
             <<"s", "a", "m", "p", "l", "i", "n", "g", "_", "y", "e", "a", "r">>,
             <<"c", "o", "l", "l", "e", "c", "t", "i", "o", "n", "_", "y", "e", "a", "r">>}]

isLowerAlnum(c) == c \in Digits \/ \E i \in 1 .. 26 : LowerCaseLetters[i] = c

\* s.replace(/[^a-z0-9]/g, '')
RECURSIVE alnumOnly(_)
alnumOnly(s) ==
  IF s = <<>> THEN <<>>
  ELSE IF isLowerAlnum(Head(s)) THEN <<Head(s)>> \o alnumOnly(Tail(s))
  ELSE alnumOnly(Tail(s))

\* the predicate of findIndex on a lower-cased, trimmed header
matchesLocationPattern(cleanHeader, patterns) ==
  \E pattern \in patterns :
    \/ includes(cleanHeader, pattern)
    \/ cleanHeader = pattern
    \/ includes(alnumOnly(cleanHeader), alnumOnly(pattern))

\* the index of the first of the positions hits, -1 without one
firstIndex(hits) ==
  IF hits = {} THEN -1
  ELSE (CHOOSE i \in hits : \A j \in hits : i <= j) - 1

\* headers.findIndex(...) of extractLocationInfo: the index of the first
\* header that one of the patterns matches, -1 without one
findIndex(headers, patterns) ==
  firstIndex({i \in 1 .. Len(headers) :
                /\ headers[i] # <<>>
                /\ matchesLocationPattern(trim(lowerCased(headers[i])), patterns)})

\* row[columnIndex] when the column was found and the cell is not empty
cellAt(row, columnIndex) ==
  IF columnIndex # -1 /\ columnIndex + 1 <= Len(row)
  THEN row[columnIndex + 1] ELSE None

\* the location object for the three cells: an entry the code leaves
\* undefined is "" for the name and None for a coordinate
locationOf(name, latitude, longitude) ==
  [name |-> IF name = None THEN "" ELSE name[1],
   latitude |-> latitude,
   longitude |-> longitude]

\* extractLocationInfo, restricted to name/latitude/longitude
extractLocationInfo(row, headers) ==
  locationOf(cellAt(row, findIndex(headers, locationPatterns.name)),
             cellAt(row, findIndex(headers, locationPatterns.latitude)),
             cellAt(row, findIndex(headers, locationPatterns.longitude)))

\* the cell of a metal column
metalCell(row, columnInfo) ==
  IF columnInfo.index + 1 <= Len(row) THEN row[columnInfo.index + 1] ELSE None

\* the value of a decimal digit
digitValue(c) ==
  CASE c = "0" -> 0 [] c = "1" -> 1 [] c = "2" -> 2 [] c = "3" -> 3
    [] c = "4" -> 4 [] c = "5" -> 5 [] c = "6" -> 6 [] c = "7" -> 7
    [] c = "8" -> 8 [] c = "9" -> 9

\* the number the leading digits of s spell, after the digits read so far
\* (None when there has been no digit: NaN)
RECURSIVE leadingDigits(_, _)
leadingDigits(s, sofar) ==
  IF s = <<>> \/ Head(s) \notin Digits THEN sofar
  ELSE leadingDigits(Tail(s),
                     Some(10 * (IF sofar = None THEN 0 ELSE sofar[1])
                          + digitValue(Head(s))))

\* the number with the sign of the text it was read from
signed(negative, magnitude) ==
  IF magnitude = None THEN None
  ELSE IF negative THEN Some(0 - magnitude[1]) ELSE magnitude

\* parseFloat on the whole numbers of the model: a cell that holds a number
\* is a one-element sequence and parses to itself; a text cell is a sequence
\* of two or more characters, read as leading blanks, a sign, digits
parseFloat(cell) ==
  IF Len(cell) = 1 THEN cell
  ELSE IF trim(cell) # <<>> /\ Head(trim(cell)) = "-"
       THEN signed(TRUE, leadingDigits(Tail(trim(cell)), None))
  ELSE IF trim(cell) # <<>> /\ Head(trim(cell)) = "+"
       THEN signed(FALSE, leadingDigits(Tail(trim(cell)), None))
  ELSE leadingDigits(trim(cell), None)

\* numericValue of a metal cell: None for an empty cell or NaN
numericValue(cell) == IF cell = None THEN None ELSE parseFloat(cell)

\* extractHeavyMetalValues without the test numericValue >= 0
extractHeavyMetalValuesAnySign(row, metalColumns) ==
  [m \in {k \in DOMAIN metalColumns :
            numericValue(metalCell(row, metalColumns[k])) # None} |->
     [value |-> numericValue(metalCell(row, metalColumns[m]))[1],
      unit |-> IF metalColumns[m].unit = "" THEN "ppm"
               ELSE metalColumns[m].unit]]

\* keeps the cells of the metal columns that parse to a number >= 0, with
\* the unit of the column's header
extractHeavyMetalValues(row, metalColumns) ==
  [m \in {k \in DOMAIN metalColumns :
            /\ numericValue(metalCell(row, metalColumns[k])) # None
            /\ numericValue(metalCell(row, metalColumns[k]))[1] >= 0} |->
     [value |-> numericValue(metalCell(row, metalColumns[m]))[1],
      unit |-> IF metalColumns[m].unit = "" THEN "ppm"
               ELSE metalColumns[m].unit]]

\* parseInt on the cells of the model, which hold whole numbers or text
\* without a decimal point: leading blanks, a sign, digits
parseInt(cell) ==
  IF Len(cell) = 1 THEN cell
  ELSE IF trim(cell) # <<>> /\ Head(trim(cell)) = "-"
       THEN signed(TRUE, leadingDigits(Tail(trim(cell)), None))
  ELSE IF trim(cell) # <<>> /\ Head(trim(cell)) = "+"
       THEN signed(FALSE, leadingDigits(Tail(trim(cell)), None))
  ELSE leadingDigits(trim(cell), None)

\* the year branch of extractLocationInfo on the number parseInt read, with
\* the year of the clock: the year kept, None when location.year is not set
keptYear(numValue, fullYear) ==
  IF numValue # None /\ numValue[1] > 1900 /\ numValue[1] <= fullYear + 1
  THEN numValue ELSE None

\* location.year of extractLocationInfo(row, headers) when new Date() is in
\* the year fullYear
extractYear(row, headers, fullYear) ==
  IF cellAt(row, findIndex(headers, locationPatterns.year)) = None THEN None
  ELSE keptYear(parseInt(cellAt(row, findIndex(headers, locationPatterns.year))),
                fullYear)

\* the row loop's pass without the errors.push of a skipped row
processRowSkippingSilently(rowNumber, locationInfo, metalValues) ==
  IF locationInfo.name = ""
     \/ (Falsy(locationInfo.latitude) /\ Falsy(locationInfo.longitude))
  THEN [data |-> <<>>, errors |-> <<>>]
  ELSE [data |-> <<[location |-> [name |-> locationInfo.name],
                    coordinates |->
                      <<IF Falsy(locationInfo.longitude) THEN 0
                        ELSE locationInfo.longitude[1],
                        IF Falsy(locationInfo.latitude) THEN 0
                        ELSE locationInfo.latitude[1]>>,
                    heavyMetals |-> metalValues,
                    rowNumber |-> rowNumber]>>,
        errors |-> <<>>]

\* one pass of the row loop: the error or the record of the row
processRow(rowNumber, locationInfo, metalValues) ==
  IF locationInfo.name = ""
     \/ (Falsy(locationInfo.latitude) /\ Falsy(locationInfo.longitude))
  THEN [data |-> <<>>,
        errors |-> <<[row |-> rowNumber,
                      error |-> "Missing essential location data"]>>]
  ELSE [data |-> <<[location |-> [name |-> locationInfo.name],
                    coordinates |->
                      <<IF Falsy(locationInfo.longitude) THEN 0
                        ELSE locationInfo.longitude[1],
                        IF Falsy(locationInfo.latitude) THEN 0
                        ELSE locationInfo.latitude[1]>>,
                    heavyMetals |-> metalValues,
                    rowNumber |-> rowNumber]>>,
        errors |-> <<>>]

\* processedData.push / errors.push in row order
pushed(first, rest) ==
  [data |-> first.data \o rest.data, errors |-> first.errors \o rest.errors]

\* the row loop of processFile over rows i..Len(rows); row i has number i + 1
RECURSIVE processRows(_, _, _, _)
processRows(rows, headers, metalColumns, i) ==
  IF i > Len(rows) THEN [data |-> <<>>, errors |-> <<>>]
  ELSE pushed(processRow(i + 1,
                         extractLocationInfo(rows[i], headers),
                         extractHeavyMetalValues(rows[i], metalColumns)),
              processRows(rows, headers, metalColumns, i + 1))

\* the object processFile returns for the outcome of the row loop
processed(res, totalRows) ==
  [success |-> TRUE, data |-> res.data, errors |-> res.errors,
   totalRows |-> totalRows,
   processedRows |-> Len(res.data), errorRows |-> Len(res.errors)]

\* parseFile throws on an unreadable workbook or one without a data row;
\* processFile turns the throw into success: false
processFile(sheet) ==
  IF ~sheet.readable \/ Len(sheet.rows) < 1
  THEN [success |-> FALSE, data |-> <<>>, errors |-> <<>>, totalRows |-> 0]
  ELSE processed(processRows(sheet.rows, sheet.headers,
                             detectHeavyMetalColumns(sheet.headers).metalColumns, 1),
                 Len(sheet.rows))

\* coordinate and heavy metal checks of validateRecord
validateRecord(record) ==
  LET longitude == record.coordinates[1]
      latitude == record.coordinates[2]
      errors ==
        (IF latitude < -90 \/ latitude > 90
         THEN <<"Invalid latitude value">> ELSE <<>>)
        \o (IF longitude < -180 \/ longitude > 180
            THEN <<"Invalid longitude value">> ELSE <<>>)
        \o (IF \E m \in DOMAIN record.heavyMetals : record.heavyMetals[m].value < 0
            THEN <<"Negative value">> ELSE <<>>)
        \o (IF \E m \in DOMAIN record.heavyMetals : record.heavyMetals[m].value > 10000
            THEN <<"Unusually high value">> ELSE <<>>)
  IN [isValid |-> Len(errors) = 0, errors |-> errors]

\* -------------------------------------------------------- fileUploader.js
allowedTypes == {".xlsx", ".xls"}

\* file.size is the size multer reports, Len(file.bytes) the size fs.stat finds
validateFile(file, exists) ==
  LET errors ==
        (IF file.size > maxFileSize THEN <<"File size too large">> ELSE <<>>)
        \o (IF file.extension \notin allowedTypes THEN <<"Invalid file type">> ELSE <<>>)
        \o (IF ~exists THEN <<"Uploaded file not found on server">> ELSE <<>>)
        \o (IF ~exists THEN <<"Cannot read file statistics">>
            ELSE IF Len(file.bytes) = 0 THEN <<"File is empty">> ELSE <<>>)
  IN [isValid |-> Len(errors) = 0, errors |-> errors]

\* SHA-256 of the file's bytes, modelled as a positional digest of the bytes
RECURSIVE generateFileHash(_)
generateFileHash(bytes) ==
  IF bytes = <<>> THEN 7
  ELSE (31 * generateFileHash(SubSeq(bytes, 1, Len(bytes) - 1))
        + bytes[Len(bytes)]) % 65521

\* a cleanup that leaves the temporary file in place
cleanupFileSkipped(disk, r) == disk

\* fs.unlink wrapped in try/catch: the file is gone afterwards; an unlink of a
\* file that is already gone fails and is swallowed
cleanupFile(disk, r) == [disk EXCEPT ![r] = FALSE]

\* ---------------------------------------------------- dataController.js
\* lines 104-145: the indices of an assessment that the controller copies
\* into pollutionIndices
sevenIndices ==
  {"hpi", "nemerowIndex", "contaminationFactors", "pollutionLoadIndex",
   "geoaccumulationIndex", "ecologicalRiskIndex", "healthRiskIndex"}

\* the pollutionIndices of a record without heavy metal values
withoutHeavyMetals ==
  [hmpi |-> [value |-> None, category |-> "No Heavy Metals"],
   reported |-> {}, error |-> ""]

\* a catch branch that labels the record like one without metals
indicesOfMislabelled(assessment) ==
  IF assessment.ok
  THEN [hmpi |-> [value |-> Some(assessment.hpi.value),
                  category |-> assessment.hpi.interpretation.level],
        reported |-> sevenIndices,
        error |-> ""]
  ELSE withoutHeavyMetals

\* lines 101-167: the inner try (the indices of the assessment, the legacy
\* hmpi among them) and its catch
indicesOf(assessment) ==
  IF assessment.ok
  THEN [hmpi |-> [value |-> Some(assessment.hpi.value),
                  category |-> assessment.hpi.interpretation.level],
        reported |-> sevenIndices,
        error |-> ""]
  ELSE [hmpi |-> [value |-> None, category |-> "Unknown"],
        reported |-> {},
        error |-> assessment.error]

\* a record loop whose catch branch labels the record like one without metals
buildPollutionIndicesMislabelled(record) ==
  IF DOMAIN record.heavyMetals # {}
  THEN indicesOfMislabelled(calculateComprehensiveAssessment(record.heavyMetals))
  ELSE withoutHeavyMetals

\* lines 98-176: the pollutionIndices of one record; reported names the
\* indices the object carries next to the legacy hmpi
buildPollutionIndices(record) ==
  IF DOMAIN record.heavyMetals # {}
  THEN indicesOf(calculateComprehensiveAssessment(record.heavyMetals))
  ELSE withoutHeavyMetals

\* a processing block that leaves out the file hash
processingWithoutHash(hash, recordValidation) ==
  [fileHash |-> -1, processingErrors |-> recordValidation.errors]

\* a processing block that leaves out the validation errors
processingWithoutErrors(hash, recordValidation) ==
  [fileHash |-> hash, processingErrors |-> <<>>]

\* lines 205-216: the processing block of a document; an entry of
\* processingErrors is the message of one validation error
processingBlock(hash, recordValidation) ==
  [fileHash |-> hash, processingErrors |-> recordValidation.errors]

\* lines 197-223: the document built for one record (rowNumber and upload
\* identify the row and the request it came from)
buildDoc(record, hash, r) ==
  LET recordValidation == validateRecord(record)
  IN [location |-> record.location,
      coordinates |-> record.coordinates,
      heavyMetals |-> record.heavyMetals,
      pollutionIndices |-> buildPollutionIndices(record),
      processing |-> processingBlock(hash, recordValidation),
      qualityFlags |-> [isValidated |-> recordValidation.isValid,
                        hasAnomalies |-> ~recordValidation.isValid,
                        anomalies |-> recordValidation.errors,
                        confidence |-> IF recordValidation.isValid
                                       THEN Fraction(1, 1) ELSE Fraction(1, 2)],
      rowNumber |-> record.rowNumber,
      upload |-> r]

\* the record loop: nothing in its body throws for a record the extractor
\* built, so every record yields a document and processingErrors stays empty
RECURSIVE buildDocs(_, _, _)
buildDocs(data, hash, r) ==
  IF data = <<>> THEN <<>>
  ELSE <<buildDoc(Head(data), hash, r)>> \o buildDocs(Tail(data), hash, r)

\* line 503 of getPollutionData: the path of the filter for ?metal=
getPollutionDataKey(metal) == <<"heavyMetals", toUpperCase[metal]>>

\* line 777 of getHeatmapData: the path of the filter for a metal ?metric=
getHeatmapDataKey(metric) == <<"heavyMetals", toUpperCase[metric]>>

\* line 707 of buildDynamicFilters: the path of the filter for metals[metal]
buildDynamicFiltersKey(metal) == <<"heavyMetals", toUpperCase[metal], "value">>

\* MongoDB's test that a document has a field at a path into heavyMetals;
\* field names compare case-sensitively
hasPath(doc, path) ==
  /\ path[1] = "heavyMetals"
  /\ path[2] \in DOMAIN doc.heavyMetals
  /\ Len(path) = 3 => path[3] \in DOMAIN doc.heavyMetals[path[2]]

\* PollutionData.find(filter) for a filter on one path, over the documents
find(docs, path) == {doc \in docs : hasPath(doc, path)}

\* line 201 of uploadPollutionData: the documents keep the heavyMetals
\* object of the parser's records as it is
uploaded(data) ==
  {[location |-> data[k].location, heavyMetals |-> data[k].heavyMetals] :
     k \in 1 .. Len(data)}

\* ------------------------------------------------------ PollutionData.js
\* Mongoose validation of one document against pollutionDataSchema
schemaValid(doc) ==
  /\ doc.location.name # ""
  /\ doc.coordinates[1] >= -180 /\ doc.coordinates[1] <= 180
  /\ doc.coordinates[2] >= -90 /\ doc.coordinates[2] <= 90
  /\ \A m \in DOMAIN doc.heavyMetals :
       /\ doc.heavyMetals[m].value >= 0
       /\ doc.heavyMetals[m].unit \in {"ppm", "ppb", "mg/L", "ug/L"}
  /\ doc.pollutionIndices.hmpi.value = None \/ doc.pollutionIndices.hmpi.value[1] >= 0
  /\ doc.pollutionIndices.hmpi.category \in {"Safe", "Mid", "Unsafe", "Unknown"}

\* ----------------------------------------------------------- the inputs
\* the header cells of the workbooks of the model
LocationHeader == <<"L", "o", "c", "a", "t", "i", "o", "n">>

LatitudeHeader == <<"L", "a", "t", "i", "t", "u", "d", "e">>

LongitudeHeader == <<"L", "o", "n", "g", "i", "t", "u", "d", "e">>

AsPpbHeader == <<"A", "s", " ", "(", "p", "p", "b", ")">>

PbPpbHeader == <<"P", "b", " ", "(", "p", "p", "b", ")">>

MnPpbHeader == <<"M", "n", " ", "(", "p", "p", "b", ")">>

MnPpmHeader == <<"M", "n", " ", "(", "p", "p", "m", ")">>

AsUgLHeader == <<"A", "s", " ", "(", "u", "g", "/", "L", ")">>

\* the first three cells of a row of these workbooks (name "" is an empty
\* location cell) followed by the cells of its metal columns
Row(name, lat, lon, cells) ==
  <<IF name = "" THEN None ELSE Some(name), lat, lon>> \o cells

\* XLSX.readFile + sheet_to_json on the workbooks of the model, by content:
\* the header row and the data rows
Sheet(metalHeaders, rows) ==
  [readable |-> TRUE,
   headers |-> <<LocationHeader, LatitudeHeader, LongitudeHeader>> \o metalHeaders,
   rows |-> rows]

Workbook(bytes) ==
  CASE bytes = <<1>> ->
         [readable |-> FALSE, headers |-> <<>>, rows |-> <<>>]
    [] bytes = <<2>> ->
         Sheet(<<AsPpbHeader>>,
               <<Row("", Some(10), Some(20), <<Some(20)>>),
                 Row("S2", None, Some(0), <<Some(20)>>)>>)
    [] bytes = <<3>> ->
         Sheet(<<MnPpmHeader>>,
               <<Row("S1", Some(10), Some(20), <<Some(5)>>)>>)
    [] bytes = <<1, 2>> ->
         Sheet(<<AsPpbHeader, MnPpbHeader>>,
               <<Row("S1", Some(10), Some(20), <<Some(20), None>>),
                 Row("S2", Some(11), Some(21), <<None, Some(5)>>)>>)
    [] bytes = <<2, 1>> ->
         Sheet(<<AsPpbHeader, PbPpbHeader>>,
               <<Row("S1", Some(10), Some(20), <<None, None>>),
                 Row("", Some(11), Some(21), <<None, Some(5)>>),
                 Row("S3", Some(12), Some(22), <<Some(30), Some(30)>>)>>)
    [] OTHER ->
         Sheet(<<AsUgLHeader>>,
               <<Row("S1", Some(10), Some(200), <<Some(20)>>),
                 Row("S2", Some(11), Some(21), <<Some(-4)>>)>>)

NoFile == [present |-> FALSE, extension |-> "", size |-> 0, bytes |-> <<>>]

File(extension, size, bytes) ==
  [present |-> TRUE, extension |-> extension, size |-> size, bytes |-> bytes]

\* the requests multer can hand to the handler
Uploads ==
  << NoFile,
     File(".csv", 1, <<3>>),
     File(".xlsx", 0, <<>>),
     File(".xlsx", maxFileSize + 1, <<3>>),
     File(".xlsx", 1, <<1>>),
     File(".xlsx", 1, <<2>>),
     File(".xlsx", 1, <<3>>),
     File(".xls", 2, <<1, 2>>),
     File(".xlsx", 2, <<2, 1>>),
     File(".xlsx", 2, <<3, 3>>) >>

\* parser.processFile(filePath) on the workbook of each upload, by content
parsed ==
  [bytes \in {Uploads[i].bytes : i \in DOMAIN Uploads} |->
     processFile(Workbook(bytes))]

Reqs == 1 .. NumReqs

\* ------------------------------------------------------------- the state
VARIABLES
  file,              \* req.file of each request
  pc,                \* where each invocation of uploadPollutionData stands
  disk,              \* whether the temporary file at req.file.path exists
  fileMetadata,      \* fileMetadata.hash once computed
  parseResult,       \* what parser.processFile returned
  processedRecords,  \* documents built by the record loop
  processingErrors,  \* the handler's batch error list
  savedRecords,      \* the handler's savedRecords
  insertError,       \* the error caught at `catch (insertError)`
  batchIndex,        \* i of the batch retry loop
  totalSaved,        \* totalSaved of the batch retry loop
  response,          \* status and body handed to res / next
  store,             \* the PollutionData collection
  written,           \* history: documents each invocation has put in the store
  checks,            \* history: how many of the four batch-level checks it passed
  call,              \* the calculator or parser function called on its own
  args,              \* the arguments of that call
  returned,          \* what the call returned (None before it returns)
  warned,            \* whether the call wrote a console warning
  standardsCache,    \* hmpiCalculator.standardsCache
  formulaCache,      \* hmpiCalculator.formulaCache
  now,               \* Date.now(), in milliseconds
  collections,       \* the HeavyMetalStandard and FormulaConfig collections
  isConnected,       \* DatabaseConnection.isConnected
  retryCount,        \* DatabaseConnection.retryCount
  connectPc,         \* where the invocation of connect() stands
  attempts,          \* history: mongoose.connect calls since connect() was called
  deployment         \* INIT_CONFIG and the indexes of the pollutiondatas collection

vars ==
  <<file, pc, disk, fileMetadata, parseResult, processedRecords, processingErrors,
    savedRecords, insertError, batchIndex, totalSaved, response, store, written,
    checks, call, args, returned, warned, standardsCache, formulaCache, now,
    collections, isConnected, retryCount, connectPc, attempts, deployment>>

\* the variables of the calculator's caches and of the database connection
services ==
  <<standardsCache, formulaCache, now, collections, isConnected, retryCount,
    connectPc, attempts, deployment>>

\* the variables of a function called on its own and of the services, which
\* the handler leaves alone
calc == <<call, args, returned, warned, services>>

NoResponse == [status |-> 0, message |-> "", processedRows |-> 0, errorRows |-> 0,
               errors |-> <<>>]

NoMetadata == [hash |-> -1]

\* what the handler reads of a caught insertError: the rows of its writeErrors
\* and whether it carries insertedDocs
NoError == [thrown |-> FALSE, writeErrors |-> {}, hasInsertedDocs |-> FALSE]

PlainError == [thrown |-> TRUE, writeErrors |-> {}, hasInsertedDocs |-> FALSE]

NoParse == [success |-> FALSE, data |-> <<>>, errors |-> <<>>, totalRows |-> 0]

\* The requests are interchangeable, so they are numbered in the order of
\* their uploads in Uploads.
\* the caches the calculator's constructor builds (lines 9-10), the clock
\* at 0, empty collections, and the connection object its constructor builds
\* (lines 9-10 of database.js) with connect() not called
ServicesIdle ==
  /\ standardsCache = [k \in StandardsKeys |-> None]
  /\ formulaCache = [k \in FormulaKeys |-> None]
  /\ now = 0
  /\ collections = [standards |-> {}, formula |-> None]
  /\ isConnected = FALSE
  /\ retryCount = 0
  /\ connectPc = "idle"
  /\ attempts = 0
  /\ deployment = [initConfig |-> TRUE, problematicIndex |-> FALSE]

Init ==
  /\ \E pick \in [Reqs -> DOMAIN Uploads] :
       /\ \A r \in Reqs : r + 1 \in Reqs => pick[r] <= pick[r + 1]
       /\ file = [r \in Reqs |-> Uploads[pick[r]]]
  /\ pc = [r \in Reqs |-> "start"]
  /\ disk = [r \in Reqs |-> file[r].present]
  /\ fileMetadata = [r \in Reqs |-> NoMetadata]
  /\ parseResult = [r \in Reqs |-> NoParse]
  /\ processedRecords = [r \in Reqs |-> <<>>]
  /\ processingErrors = [r \in Reqs |-> <<>>]
  /\ savedRecords = [r \in Reqs |-> <<>>]
  /\ insertError = [r \in Reqs |-> NoError]
  /\ batchIndex = [r \in Reqs |-> 0]
  /\ totalSaved = [r \in Reqs |-> 0]
  /\ response = [r \in Reqs |-> NoResponse]
  /\ store = {}
  /\ written = [r \in Reqs |-> 0]
  /\ checks = [r \in Reqs |-> 0]
  /\ call = "uploadPollutionData"
  /\ args = None
  /\ returned = None
  /\ warned = FALSE
  /\ ServicesIdle

\* -------------------------------------------------- the store's operations
\* The collection is a set of stored documents [doc, copy]: copy tells apart
\* the stored copies of one document, as their _id does.
\* insertion of a sequence of accepted documents
RECURSIVE insertDocs(_, _)
insertDocs(coll, docs) ==
  IF docs = <<>> THEN coll
  ELSE LET d == Head(docs)
           n == Cardinality({s \in coll : s.doc = d})
       IN insertDocs(coll \cup {[doc |-> d, copy |-> n + 1]}, Tail(docs))

\* PollutionData.countDocuments({'processing.fileHash': hash})
countDocuments(coll, hash) ==
  Cardinality({s \in coll : s.doc.processing.fileHash = hash})

\* a duplicate query on a field no document carries
existingDataWrongField(coll, hash) == \E s \in coll : s.doc.rowNumber = -hash

\* PollutionData.findOne({'processing.fileHash': hash}) found a record
existingData(coll, hash) == \E s \in coll : s.doc.processing.fileHash = hash

\* the first n documents of a query result, whose order the store chooses
RECURSIVE firstN(_, _)
firstN(found, n) ==
  IF found = {} \/ n = 0 THEN <<>>
  ELSE LET s == CHOOSE x \in found : TRUE
       IN <<s.doc>> \o firstN(found \ {s}, n - 1)

\* PollutionData.find({'processing.fileHash': hash}).limit(n)
findByHash(coll, hash, n) ==
  firstN({s \in coll : s.doc.processing.fileHash = hash}, n)

\* the documents of docs that pass Mongoose validation, in order
RECURSIVE validDocs(_)
validDocs(docs) ==
  IF docs = <<>> THEN <<>>
  ELSE (IF schemaValid(Head(docs)) THEN <<Head(docs)>> ELSE <<>>)
       \o validDocs(Tail(docs))

\* docs without the positions in rejected
RECURSIVE without(_, _, _)
without(docs, rejected, i) ==
  IF i > Len(docs) THEN <<>>
  ELSE (IF i \in rejected THEN <<>> ELSE <<docs[i]>>) \o without(docs, rejected, i + 1)

\* The outcomes of Model.insertMany(docs, {ordered: false}).  Documents failing
\* schema validation are dropped without an error.  The store then accepts all
\* the rest ("ok"), rejects some of them with write errors ("bulk": the error
\* carries writeErrors and the insertedDocs), or the call fails as a whole
\* ("failed"): the error then carries no writeErrors, and an empty insertedDocs
\* array (hasInsertedDocs) or none at all, depending on the Mongoose build.
insertManyOutcomes(docs) ==
  LET valid == validDocs(docs)
  IN {[kind |-> "ok", error |-> NoError, insertedDocs |-> valid]}
     \cup {[kind |-> "bulk",
            error |-> [thrown |-> TRUE, hasInsertedDocs |-> TRUE,
                       writeErrors |-> {valid[i].rowNumber : i \in R}],
            insertedDocs |-> without(valid, R, 1)] :
             R \in {S \in SUBSET DOMAIN valid : S # {} /\ Cardinality(S) <= MaxRejected}}
     \cup {[kind |-> "failed",
            error |-> [PlainError EXCEPT !.hasInsertedDocs = b],
            insertedDocs |-> <<>>] : b \in BOOLEAN}

\* The outcomes of Model.create(doc): stored, or an error (validation or store)
createOutcomes(doc) ==
  (IF schemaValid(doc) THEN {[kind |-> "ok", insertedDocs |-> <<doc>>]} ELSE {})
  \cup {[kind |-> "failed", insertedDocs |-> <<>>]}

\* ------------------------------------------------- uploadPollutionData
\* the handler returns: its locals go out of scope
Return(r) ==
  /\ pc' = [pc EXCEPT ![r] = "done"]
  /\ fileMetadata' = [fileMetadata EXCEPT ![r] = NoMetadata]
  /\ parseResult' = [parseResult EXCEPT ![r] = NoParse]
  /\ processedRecords' = [processedRecords EXCEPT ![r] = <<>>]
  /\ processingErrors' = [processingErrors EXCEPT ![r] = <<>>]
  /\ savedRecords' = [savedRecords EXCEPT ![r] = <<>>]
  /\ insertError' = [insertError EXCEPT ![r] = NoError]
  /\ batchIndex' = [batchIndex EXCEPT ![r] = 0]
  /\ totalSaved' = [totalSaved EXCEPT ![r] = 0]

\* `return next(new AppError(message, status))`, after cleanupFile when the
\* handler cleans up on that path
Reject(r, status, message, cleanup) ==
  /\ disk' = IF cleanup THEN cleanupFile(disk, r) ELSE disk
  /\ response' = [response EXCEPT ![r] = [NoResponse EXCEPT !.status = status,
                                                           !.message = message]]
  /\ Return(r)

\* the outer `catch (error)`: cleanupFile, then next(error)
Throw(r) == Reject(r, 500, "error", TRUE)

\* the handler moves on to its next await
Goto(r, position) == pc' = [pc EXCEPT ![r] = position]

\* the step passed n more of the checks: file validation, duplicate check,
\* parse, non-empty data
Passed(r, n) == checks' = [checks EXCEPT ![r] = @ + n]

\* lines 15-27: the request reaches the handler
Start(r) ==
  /\ pc[r] = "start"
  /\ IF ~file[r].present
     THEN Reject(r, 400, "No file uploaded", FALSE)
     ELSE /\ Goto(r, "validateFile")
          /\ UNCHANGED <<disk, response, fileMetadata, parseResult, processedRecords,
                         processingErrors, savedRecords, insertError, batchIndex,
                         totalSaved>>
  /\ UNCHANGED <<calc, file, store, written, checks>>

\* fileUploader.getFileMetadata, restricted to the hash
getFileMetadata(f) == [hash |-> generateFileHash(f.bytes)]

\* lines 31-38: validateFile and getFileMetadata, which touch the request's own
\* temporary file only
ValidateFile(r) ==
  /\ pc[r] = "validateFile"
  /\ IF ~validateFile(file[r], disk[r]).isValid
     THEN /\ Reject(r, 400, "invalid file", TRUE)
          /\ Passed(r, 0)
     ELSE /\ fileMetadata' = [fileMetadata EXCEPT ![r] = getFileMetadata(file[r])]
          /\ Goto(r, "findOne")
          /\ Passed(r, 1)
          /\ UNCHANGED <<disk, response, parseResult, processedRecords,
                         processingErrors, savedRecords, insertError, batchIndex,
                         totalSaved>>
  /\ UNCHANGED <<calc, file, store, written>>

\* a duplicate check that also counts the uploads of the same content still in
\* progress, as a lock on the hash would
FindOneLocked(r) ==
  /\ pc[r] = "findOne"
  /\ \E ok \in BOOLEAN :
       IF ~ok
       THEN /\ Throw(r)
            /\ Passed(r, 0)
       ELSE IF \/ existingData(store, fileMetadata[r].hash)
               \/ \E q \in Reqs \ {r} :
                    /\ fileMetadata[q].hash = fileMetadata[r].hash
                    /\ pc[q] \notin {"start", "validateFile", "findOne", "done"}
       THEN /\ Reject(r, 409, "This file has already been processed", TRUE)
            /\ Passed(r, 0)
       ELSE /\ Goto(r, "processFile")
            /\ Passed(r, 1)
            /\ UNCHANGED <<disk, response, fileMetadata, parseResult, processedRecords,
                           processingErrors, savedRecords, insertError, batchIndex,
                           totalSaved>>
  /\ UNCHANGED <<calc, file, store, written>>

\* lines 41-48: the duplicate check; the query itself may fail
FindOne(r) ==
  /\ pc[r] = "findOne"
  /\ \E ok \in BOOLEAN :
       IF ~ok
       THEN /\ Throw(r)
            /\ Passed(r, 0)
       ELSE IF existingData(store, fileMetadata[r].hash)
       THEN /\ Reject(r, 409, "This file has already been processed", TRUE)
            /\ Passed(r, 0)
       ELSE /\ Goto(r, "processFile")
            /\ Passed(r, 1)
            /\ UNCHANGED <<disk, response, fileMetadata, parseResult, processedRecords,
                           processingErrors, savedRecords, insertError, batchIndex,
                           totalSaved>>
  /\ UNCHANGED <<calc, file, store, written>>

\* lines 52-271: parse, the two rejections, the record loop
ProcessFile(r) ==
  /\ pc[r] = "processFile"
  /\ LET result == parsed[file[r].bytes]
         docs == buildDocs(result.data, fileMetadata[r].hash, r)
     IN IF ~result.success
        THEN /\ Reject(r, 400, "File parsing failed", TRUE)
             /\ Passed(r, 0)
        ELSE IF Len(result.data) = 0
        THEN /\ Reject(r, 400, "No valid data found in file", TRUE)
             /\ Passed(r, 1)
        ELSE /\ Passed(r, 2)
             /\ parseResult' = [parseResult EXCEPT ![r] = result]
             /\ processedRecords' = [processedRecords EXCEPT ![r] = docs]
             /\ Goto(r, IF Len(docs) > 0 THEN "insertMany" ELSE "respond")
             /\ UNCHANGED <<disk, response, fileMetadata, processingErrors,
                            savedRecords, insertError, batchIndex, totalSaved>>
  /\ UNCHANGED <<calc, file, store, written>>

\* a store call of request r has put docs in the collection
Stored(r, docs) ==
  /\ store' = insertDocs(store, docs)
  /\ written' = [written EXCEPT ![r] = @ + Len(docs)]

\* a handler that looks for the file's hash again once the bulk insert has
\* run, and rejects the upload as a duplicate then
InsertManyThenCheck(r) ==
  /\ pc[r] = "insertMany"
  /\ \E o \in insertManyOutcomes(processedRecords[r]) :
       /\ Stored(r, o.insertedDocs)
       /\ IF existingData(store, fileMetadata[r].hash)
          THEN Reject(r, 409, "This file has already been processed", TRUE)
          ELSE /\ insertError' = [insertError EXCEPT ![r] =
                                    IF o.kind = "ok" THEN @ ELSE o.error]
               /\ savedRecords' = [savedRecords EXCEPT ![r] = o.insertedDocs]
               /\ Goto(r, IF o.kind = "ok" THEN "verifyCount"
                          ELSE IF o.error.writeErrors # {} THEN "actualCount"
                          ELSE IF o.error.hasInsertedDocs THEN "respond"
                          ELSE "singleCreate")
               /\ UNCHANGED <<disk, response, fileMetadata, parseResult,
                              processedRecords, processingErrors, batchIndex,
                              totalSaved>>
  /\ UNCHANGED <<calc, file, checks>>

\* lines 285-291 and, when insertMany throws, the branch taken at lines 299-389
InsertMany(r) ==
  /\ pc[r] = "insertMany"
  /\ \E o \in insertManyOutcomes(processedRecords[r]) :
       /\ Stored(r, o.insertedDocs)
       /\ IF o.kind = "ok"
          THEN /\ savedRecords' = [savedRecords EXCEPT ![r] = o.insertedDocs]
               /\ Goto(r, "verifyCount")
               /\ UNCHANGED insertError
          ELSE /\ insertError' = [insertError EXCEPT ![r] = o.error]
               /\ IF o.error.writeErrors # {}
                  THEN /\ savedRecords' = [savedRecords EXCEPT ![r] = o.insertedDocs]
                       /\ Goto(r, "actualCount")
                  ELSE IF o.error.hasInsertedDocs
                  THEN /\ savedRecords' = [savedRecords EXCEPT ![r] = o.insertedDocs]
                       /\ Goto(r, "respond")
                  ELSE /\ Goto(r, "singleCreate")
                       /\ UNCHANGED savedRecords
  /\ UNCHANGED <<calc, file, disk, response, fileMetadata, parseResult, processedRecords,
                 processingErrors, batchIndex, totalSaved, checks>>

\* a verification count outside the try: its failure goes to the outer catch
VerifyCountUncaught(r) ==
  /\ pc[r] = "verifyCount"
  /\ \E ok \in BOOLEAN :
       IF ok
       THEN /\ Goto(r, "respond")
            /\ UNCHANGED <<disk, response, fileMetadata, parseResult, processedRecords,
                           processingErrors, savedRecords, insertError, batchIndex,
                           totalSaved>>
       ELSE Throw(r)
  /\ UNCHANGED <<calc, file, store, written, checks>>

\* lines 294-297: the verification count sits inside the same try, so its
\* failure is caught as insertError, an error without writeErrors/insertedDocs
VerifyCount(r) ==
  /\ pc[r] = "verifyCount"
  /\ \E ok \in BOOLEAN :
       IF ok
       THEN /\ Goto(r, "respond")
            /\ UNCHANGED insertError
       ELSE /\ insertError' = [insertError EXCEPT ![r] = PlainError]
            /\ Goto(r, "singleCreate")
  /\ UNCHANGED <<calc, file, disk, response, fileMetadata, parseResult, processedRecords,
                 processingErrors, savedRecords, batchIndex, totalSaved, store,
                 written, checks>>

\* lines 322-327: the count after write errors; its failure leaves the try
ActualCount(r) ==
  /\ pc[r] = "actualCount"
  /\ \E ok \in BOOLEAN :
       IF ~ok THEN Throw(r)
       ELSE /\ Goto(r, IF countDocuments(store, fileMetadata[r].hash) = 0
                       THEN "diagCreate" ELSE "findSample")
            /\ UNCHANGED <<disk, response, fileMetadata, parseResult, processedRecords,
                           processingErrors, savedRecords, insertError, batchIndex,
                           totalSaved>>
  /\ UNCHANGED <<calc, file, store, written, checks>>

\* lines 331-345 and 364-375: the diagnostic single insert of the first record
DiagCreate(r) ==
  /\ pc[r] = "diagCreate"
  /\ \E o \in createOutcomes(processedRecords[r][1]) :
       /\ Stored(r, o.insertedDocs)
       /\ Goto(r, IF o.kind = "ok" THEN "batches" ELSE "respond")
  /\ batchIndex' = [batchIndex EXCEPT ![r] = 0]
  /\ totalSaved' = [totalSaved EXCEPT ![r] = 0]
  /\ UNCHANGED <<calc, file, disk, response, fileMetadata, parseResult, processedRecords,
                 processingErrors, savedRecords, insertError, checks>>

\* processedRecords.slice(i, i + batchSize), i counting from 0
batchAt(docs, i) == SubSeq(docs, i + 1, Min(Len(docs), i + batchSize))

\* lines 348-362: one round of the retry loop; after the last batch
\* savedRecords = [testRecord]
BatchInsert(r) ==
  /\ pc[r] = "batches"
  /\ \E o \in insertManyOutcomes(batchAt(processedRecords[r], batchIndex[r])) :
       /\ Stored(r, o.insertedDocs)
       /\ totalSaved' = [totalSaved EXCEPT ![r] =
                           IF o.kind = "ok" \/ o.error.hasInsertedDocs
                           THEN @ + Len(o.insertedDocs) ELSE @]
  /\ batchIndex' = [batchIndex EXCEPT ![r] = @ + batchSize]
  /\ IF batchIndex[r] + batchSize < Len(processedRecords[r])
     THEN UNCHANGED <<pc, savedRecords>>
     ELSE /\ savedRecords' = [savedRecords EXCEPT ![r] = <<processedRecords[r][1]>>]
          /\ Goto(r, "respond")
  /\ UNCHANGED <<calc, file, disk, response, fileMetadata, parseResult, processedRecords,
                 processingErrors, insertError, checks>>

\* lines 378-382
FindSample(r) ==
  /\ pc[r] = "findSample"
  /\ \E ok \in BOOLEAN :
       IF ~ok THEN Throw(r)
       ELSE /\ savedRecords' = [savedRecords EXCEPT ![r] =
                                  findByHash(store, fileMetadata[r].hash, sampleLimit)]
            /\ Goto(r, "respond")
            /\ UNCHANGED <<disk, response, fileMetadata, parseResult, processedRecords,
                           processingErrors, insertError, batchIndex, totalSaved>>
  /\ UNCHANGED <<calc, file, store, written, checks>>

\* lines 390-397: the fallback for an error without writeErrors or insertedDocs
SingleCreate(r) ==
  /\ pc[r] = "singleCreate"
  /\ \E o \in createOutcomes(processedRecords[r][1]) :
       /\ Stored(r, o.insertedDocs)
       /\ IF o.kind = "ok"
          THEN /\ savedRecords' = [savedRecords EXCEPT ![r] = o.insertedDocs]
               /\ Goto(r, "respond")
               /\ UNCHANGED <<disk, response, fileMetadata, parseResult,
                              processedRecords, processingErrors, insertError,
                              batchIndex, totalSaved>>
          ELSE Throw(r)
  /\ UNCHANGED <<calc, file, checks>>

\* lines 408-441: the response body built from the handler's locals
responseBody(r) ==
  [status |-> 201, message |-> "File processed successfully",
   processedRows |-> Len(savedRecords[r]),
   errorRows |-> Len(processingErrors[r]),
   errors |-> Slice(processingErrors[r], 10)]

\* lines 404-443: cleanupFile, then the 201 response
Respond(r) ==
  /\ pc[r] = "respond"
  /\ disk' = cleanupFile(disk, r)
  /\ response' = [response EXCEPT ![r] = responseBody(r)]
  /\ Return(r)
  /\ UNCHANGED <<calc, file, store, written, checks>>

Next ==
  \/ \E r \in Reqs : Start(r)
  \/ \E r \in Reqs : ValidateFile(r)
  \/ \E r \in Reqs : FindOne(r)
  \/ \E r \in Reqs : ProcessFile(r)
  \/ \E r \in Reqs : InsertMany(r)
  \/ \E r \in Reqs : VerifyCount(r)
  \/ \E r \in Reqs : ActualCount(r)
  \/ \E r \in Reqs : DiagCreate(r)
  \/ \E r \in Reqs : BatchInsert(r)
  \/ \E r \in Reqs : FindSample(r)
  \/ \E r \in Reqs : SingleCreate(r)
  \/ \E r \in Reqs : Respond(r)

Spec == Init /\ [][Next]_vars

\* ------------------------------------------------------------ properties
\* the hash of the content request r uploaded
hashOf(r) == generateFileHash(file[r].bytes)

\* the stored documents that request r put in the collection
storedBy(r) == {s \in store : s.doc.upload = r}

\* request r is past the record loop and has not returned
InFlight(r) == checks[r] = 4 /\ pc[r] # "done"

C2_OneRejectedOneReported ==
  \A r \in Reqs :
    pc[r] = "respond" /\ Cardinality(insertError[r].writeErrors) = 1 =>
      LET k == CHOOSE row \in insertError[r].writeErrors : TRUE
          body == responseBody(r)
      IN /\ Cardinality(storedBy(r)) = Len(processedRecords[r]) - 1
         /\ Len(body.errors) = 1
         /\ body.errors[1].rowNumber = k

\* C3 (as the specification states it): the processedRows of a 201 response
\* is the number of records the store holds under the file's hash (no other
\* request having stored anything under it).
C3_ProcessedRowsIsStoredCount ==
  \A r \in Reqs :
    /\ pc[r] = "respond"
    /\ \A q \in Reqs \ {r} : file[q].bytes = file[r].bytes => written[q] = 0
    => responseBody(r).processedRows = countDocuments(store, fileMetadata[r].hash)

\* C4: when the duplicate check runs while the store holds a record with the
\* file's hash, the request ends there, with 409 (500 if the query itself
\* failed); it never reaches the parser and never writes.  A 409 only ever
\* follows exactly one passed check, and no write.
C4_DuplicateRejectedUnparsed ==
  [][\A r \in Reqs :
       /\ (/\ pc[r] = "findOne" /\ pc'[r] # "findOne"
           /\ countDocuments(store, hashOf(r)) > 0)
          => /\ pc'[r] = "done"
             /\ response'[r].status \in {409, 500}
             /\ parseResult'[r] = NoParse
             /\ store' = store
       /\ response'[r].status = 409 => checks'[r] = 1 /\ written'[r] = 0]_vars

\* C4 witness: a request was answered 409
C4_Witness ==
  \E r \in Reqs : response[r].status = 409 /\ countDocuments(store, hashOf(r)) > 0

\* C5 (as the specification states it): once an upload of some content has
\* finished, the duplicate check of a later upload of the same content, if the
\* query succeeds, rejects it.
C5_ReuploadAlwaysRejected ==
  [][\A r \in Reqs :
       (/\ pc[r] = "findOne" /\ pc'[r] # "findOne"
        /\ response'[r].status # 500
        /\ \E q \in Reqs \ {r} :
             /\ pc[q] = "done" /\ file[q].present
             /\ file[q] = file[r])
       => response'[r].status = 409]_vars

\* C5 (amended): once an upload of some content has returned and the store
\* holds at least one record it stored, the duplicate check of a later upload
\* of the same content, if the query succeeds, rejects it with 409.
C5_ReuploadRejectedWhileStored ==
  [][\A r \in Reqs :
       (/\ pc[r] = "findOne" /\ pc'[r] # "findOne"
        /\ response'[r].status # 500
        /\ \E q \in Reqs \ {r} :
             /\ pc[q] = "done" /\ storedBy(q) # {}
             /\ file[q].bytes = file[r].bytes)
       => response'[r].status = 409 /\ pc'[r] = "done"]_vars

\* C5 witness: an upload stored records and was answered 201, and a second
\* upload of the same content was answered 409
C5_Witness ==
  \E q, r \in Reqs :
    /\ q # r /\ file[q].bytes = file[r].bytes
    /\ response[q].status = 201 /\ storedBy(q) # {}
    /\ response[r].status = 409

\* C6: nothing serialises the duplicate check with other uploads.  Whenever
\* the check runs and succeeds while the store holds no record with the file's
\* hash, the request passes it, whatever other uploads of the same content are
\* doing; and a bulk insert that succeeds stores every schema-valid document,
\* whatever the store already holds.
C6_NoLockingBothPersist ==
  [][\A r \in Reqs :
       /\ (/\ pc[r] = "findOne" /\ pc'[r] # "findOne"
           /\ response'[r].status # 500
           /\ countDocuments(store, hashOf(r)) = 0)
          => pc'[r] = "processFile" /\ checks'[r] = 2
       /\ (pc[r] = "insertMany" /\ pc'[r] = "verifyCount")
          => Cardinality(store') =
               Cardinality(store) + Len(validDocs(processedRecords[r]))]_vars

\* C6 witness: two uploads of the same content both passed the check and the
\* store holds records of both under the one hash
C6_Witness ==
  \E q, r \in Reqs :
    /\ q # r /\ file[q].bytes = file[r].bytes
    /\ checks[q] = 4 /\ checks[r] = 4
    /\ \E s \in storedBy(q), t \in storedBy(r) :
         s.doc.processing.fileHash = t.doc.processing.fileHash

\* C7: a request answered 400 or 409 has written nothing and the store holds
\* no record of it; a request writes only after it passed all four checks.
C7_RejectionLeavesStoreUnchanged ==
  \A r \in Reqs :
    /\ response[r].status \in {400, 409} => written[r] = 0 /\ storedBy(r) = {}
    /\ written[r] > 0 => checks[r] = 4

\* C7 witness: a file was rejected at the parse after another upload had
\* stored records, which are still there
C7_Witness ==
  \E q, r \in Reqs :
    /\ response[r].message = "File parsing failed" /\ checks[r] = 2
    /\ written[q] > 0 /\ Cardinality(storedBy(q)) = written[q]

NoStandardOnly(record) ==
  /\ DOMAIN record.heavyMetals # {}
  /\ \A m \in DOMAIN record.heavyMetals :
       toUpperCase[m] \notin DOMAIN drinkingWaterStandards

\* the record has a metal with a standard
HasStandard(record) ==
  \E m \in DOMAIN record.heavyMetals : toUpperCase[m] \in DOMAIN drinkingWaterStandards

\* C9: the record loop builds one document per parsed record, in order.  For
\* a record whose calculation throws (its metals all lack a standard) the
\* document has hmpi value null and category 'Unknown' and nothing is added to
\* the batch error list; the documents of the records that have a metal with
\* a standard carry a computed value and its interpretation.
C9_CalculationFailureIsolated ==
  \A r \in Reqs :
    InFlight(r) =>
      /\ Len(processedRecords[r]) = Len(parseResult[r].data)
      /\ processingErrors[r] = <<>>
      /\ \A i \in DOMAIN parseResult[r].data :
           LET record == parseResult[r].data[i]
               doc == processedRecords[r][i]
           IN /\ doc.rowNumber = record.rowNumber
              /\ NoStandardOnly(record) =>
                   doc.pollutionIndices.hmpi = [value |-> None, category |-> "Unknown"]
              /\ HasStandard(record) =>
                   /\ doc.pollutionIndices.hmpi.value # None
                   /\ doc.pollutionIndices.hmpi.category \in {"Safe", "Warning", "Unsafe"}

\* C9 witness: a batch holding a record with manganese only next to a record
\* with arsenic, both turned into documents
C9_Witness ==
  \E r \in Reqs :
    /\ InFlight(r)
    /\ \E i, j \in DOMAIN parseResult[r].data :
         /\ NoStandardOnly(parseResult[r].data[i])
         /\ ~calculateComprehensiveAssessment(parseResult[r].data[i].heavyMetals).ok
         /\ HasStandard(parseResult[r].data[j])
         /\ processedRecords[r][i].pollutionIndices.hmpi.category = "Unknown"
         /\ processedRecords[r][j].pollutionIndices.hmpi.category = "Safe"

\* C10 (as the specification states it): for a record without any metal the
\* assessment does not throw, and the document has hmpi value null and
\* category 'Unknown'.
C10_ZeroMetalsUnknown ==
  \A r \in Reqs :
    InFlight(r) =>
      \A i \in DOMAIN parseResult[r].data :
        LET record == parseResult[r].data[i]
        IN DOMAIN record.heavyMetals = {} =>
             /\ calculateComprehensiveAssessment(record.heavyMetals).ok
             /\ processedRecords[r][i].pollutionIndices.hmpi =
                  [value |-> None, category |-> "Unknown"]

\* C11 (as the specification states it): every row the extractor skipped is
\* counted in the errorRows of the response about to be sent and appears in
\* its error list with its row number.
C11_SkippedRowsReported ==
  \A r \in Reqs :
    pc[r] = "respond" =>
      LET body == responseBody(r)
          skipped == parseResult[r].errors
      IN /\ body.errorRows >= Len(skipped)
         /\ \A i \in DOMAIN skipped :
              \E j \in DOMAIN body.errors : body.errors[j].rowNumber = skipped[i].row

\* C12 (as the specification states it): the hmpi category of every document
\* the record loop built for persistence is one the data model allows.
C12_CategoryInSchemaEnum ==
  \A r \in Reqs :
    InFlight(r) =>
      \A i \in DOMAIN processedRecords[r] :
        processedRecords[r][i].pollutionIndices.hmpi.category
          \in {"Safe", "Mid", "Unsafe", "Unknown"}

\* ------------------------------------- functions called on their own
\* the handler's variables, idle while a function is called on its own
handler ==
  <<file, pc, disk, fileMetadata, parseResult, processedRecords, processingErrors,
    savedRecords, insertError, batchIndex, totalSaved, response, store, written,
    checks>>

\* no upload is in progress
HandlerIdle ==
  /\ file = [r \in Reqs |-> NoFile]
  /\ pc = [r \in Reqs |-> "start"]
  /\ disk = [r \in Reqs |-> FALSE]
  /\ fileMetadata = [r \in Reqs |-> NoMetadata]
  /\ parseResult = [r \in Reqs |-> NoParse]
  /\ processedRecords = [r \in Reqs |-> <<>>]
  /\ processingErrors = [r \in Reqs |-> <<>>]
  /\ savedRecords = [r \in Reqs |-> <<>>]
  /\ insertError = [r \in Reqs |-> NoError]
  /\ batchIndex = [r \in Reqs |-> 0]
  /\ totalSaved = [r \in Reqs |-> 0]
  /\ response = [r \in Reqs |-> NoResponse]
  /\ store = {}
  /\ written = [r \in Reqs |-> 0]
  /\ checks = [r \in Reqs |-> 0]

\* the call returns value
Returns(value) ==
  /\ returned = None
  /\ returned' = Some(value)
  /\ UNCHANGED <<call, args, handler, services>>

\* an interpretation with the given level, as the interpret* functions return
Level(level) == [interpretation |-> [level |-> level]]

\* the metals of the health risk maps passed to generateOverallAssessment
HriMetals == {"As", "Pb", "Cd"}

\* the `results` objects passed to generateOverallAssessment: every
\* combination of the levels the five indices it reads can carry
OverallInputs ==
  {[hpi |-> Level(h), nemerowIndex |-> Level(n), pollutionLoadIndex |-> Level(p),
    ecologicalRiskIndex |-> Level(e), healthRiskIndex |-> hri] :
     h \in {"Safe", "Warning", "Unsafe"},
     n \in {"Safe", "Low", "Moderate", "High"},
     p \in {"Safe", "Threshold", "Polluted"},
     e \in {"Safe", "Moderate", "High"},
     hri \in UNION {[ms -> {Level("Safe"), Level("Risk")}] : ms \in SUBSET HriMetals}}

\* `${healthRisks} metals pose potential health risks`
healthRiskFactor(healthRisks) ==
  CASE healthRisks = 1 -> "1 metals pose potential health risks"
    [] healthRisks = 2 -> "2 metals pose potential health risks"
    [] OTHER -> "3 metals pose potential health risks"

\* a variant that pushes one risk factor for every metal at Risk
generateOverallAssessmentPerMetal(results) ==
  LET risky == {m \in DOMAIN results.healthRiskIndex :
                  results.healthRiskIndex[m].interpretation.level = "Risk"}
      riskFactors ==
        (IF results.hpi.interpretation.level = "Unsafe"
         THEN <<"High Heavy Metal Pollution Index">> ELSE <<>>)
        \o (IF results.nemerowIndex.interpretation.level = "High"
            THEN <<"Severe pollution detected by Nemerow Index">> ELSE <<>>)
        \o (IF results.pollutionLoadIndex.interpretation.level = "Polluted"
            THEN <<"Overall pollution load exceeds safe levels">> ELSE <<>>)
        \o [i \in 1 .. Cardinality(risky) |-> healthRiskFactor(1)]
        \o (IF results.ecologicalRiskIndex.interpretation.level = "High"
            THEN <<"High ecological risk detected">> ELSE <<>>)
  IN [riskLevel |-> IF Len(riskFactors) = 0 THEN "Safe"
                    ELSE IF Len(riskFactors) <= 2 THEN "Moderate" ELSE "High",
      riskFactors |-> riskFactors,
      summary |-> Len(riskFactors)]

\* hmpiCalculator.generateOverallAssessment; recommendations are left out and
\* summary is the number its text states
generateOverallAssessment(results) ==
  LET healthRisks == Cardinality({m \in DOMAIN results.healthRiskIndex :
                        results.healthRiskIndex[m].interpretation.level = "Risk"})
      riskFactors ==
        (IF results.hpi.interpretation.level = "Unsafe"
         THEN <<"High Heavy Metal Pollution Index">> ELSE <<>>)
        \o (IF results.nemerowIndex.interpretation.level = "High"
            THEN <<"Severe pollution detected by Nemerow Index">> ELSE <<>>)
        \o (IF results.pollutionLoadIndex.interpretation.level = "Polluted"
            THEN <<"Overall pollution load exceeds safe levels">> ELSE <<>>)
        \o (IF healthRisks > 0 THEN <<healthRiskFactor(healthRisks)>> ELSE <<>>)
        \o (IF results.ecologicalRiskIndex.interpretation.level = "High"
            THEN <<"High ecological risk detected">> ELSE <<>>)
  IN [riskLevel |-> IF Len(riskFactors) = 0 THEN "Safe"
                    ELSE IF Len(riskFactors) <= 2 THEN "Moderate" ELSE "High",
      riskFactors |-> riskFactors,
      summary |-> Len(riskFactors)]

\* a call of generateOverallAssessment(results)
GenerateOverallAssessment ==
  /\ call = "generateOverallAssessment"
  /\ Returns(generateOverallAssessment(args))
  /\ UNCHANGED warned

\* the readings a metal can carry in the maps passed to the calculator
Readings ==
  {[value |-> v, unit |-> u] : v \in {0, 10, 20, 30}, u \in {"ppb", "ug/L"}}
  \cup {[value |-> 1, unit |-> "mg/L"], [value |-> 2, unit |-> "ppm"]}

\* the heavyMetalValues maps passed to the calculator: As and Pb have a
\* standard entry, Mn has none
HeavyMetalInputs ==
  UNION {[ms -> Readings] : ms \in SUBSET {"As", "Pb", "Mn"}}

\* a call of calculateHPI(heavyMetalValues); it warns about every metal
\* without a standard
CalculateHPI ==
  /\ call = "calculateHPI"
  /\ Returns(calculateHPI(args))
  /\ warned' = (\E m \in DOMAIN args : m \notin Matched(args))

\* readings in the two remaining units of the table and in units it lacks
OtherReadings ==
  {[value |-> v, unit |-> u] :
     v \in {0, 1, 5, 2500}, u \in {"mg/L", "g/L", "ng/L", "mg/kg", "ppt", ""}}

\* a call of normalizeToMgL(value, unit); its body writes no warning
NormalizeToMgL ==
  /\ call = "normalizeToMgL"
  /\ Returns(normalizeToMgL(args.value, args.unit))
  /\ UNCHANGED warned

\* header cells detectHeavyMetalColumns is called with on its own
CuPpmHeader == <<"C", "u", " ", "(", "p", "p", "m", ")">>

FeMgLHeader == <<"F", "e", " ", "(", "m", "g", "/", "L", ")">>

AsHeader == <<"A", "s">>

PbDashHeader == <<"P", "b", "-", "p", "p", "b">>

ZnTrailingHeader == <<"Z", "n", " ", "u", "g", "/", "L">>

HeaderCells ==
  {LocationHeader, AsPpbHeader, AsUgLHeader, CuPpmHeader, FeMgLHeader,
   AsHeader, PbDashHeader, ZnTrailingHeader, <<>>}

MaxHeaders == 2

\* the header rows: every list of up to MaxHeaders of these cells
HeaderRows ==
  UNION {[1 .. n -> HeaderCells] : n \in 0 .. MaxHeaders}

DetectHeavyMetalColumns ==
  /\ call = "detectHeavyMetalColumns"
  /\ Returns(detectHeavyMetalColumns(args))
  /\ UNCHANGED warned

\* the sheets processFile is called with on its own: one metal column and up
\* to MaxRows rows whose location cells are drawn from LocationCells
LocationCells == {"", "S1"}

CoordinateCells == {None, Some(0), Some(10)}

MaxRows == 2

SheetRows ==
  {Row(name, lat, lon, <<Some(20)>>) :
     name \in LocationCells, lat \in CoordinateCells, lon \in CoordinateCells}

\* metal cells: empty, numbers, and text that is no number, a negative
\* number or a number
MetalCells ==
  {None, Some(20), Some(0), Some(-5), <<"N", "D">>, <<"-", "5">>, <<"1", "2">>}

\* rows with a resolvable location and one metal cell
CellRows == {Row("S1", Some(10), Some(10), <<c>>) : c \in MetalCells}

Sheets ==
  {Sheet(<<AsPpbHeader>>, rows) :
     rows \in UNION {[1 .. n -> SheetRows] : n \in 1 .. MaxRows}}
  \cup {Sheet(<<AsPpbHeader>>, rows) :
          rows \in UNION {[1 .. n -> CellRows] : n \in 1 .. MaxRows}}

ProcessFileOnSheet ==
  /\ call = "processFile"
  /\ Returns(processFile(args))
  /\ UNCHANGED warned

\* the records of the record loop, by their heavy metal readings
RecordInputs == {[heavyMetals |-> h] : h \in HeavyMetalInputs}

\* lines 98-176 of uploadPollutionData for one record
BuildPollutionIndices ==
  /\ call = "buildPollutionIndices"
  /\ Returns(buildPollutionIndices(args))
  /\ UNCHANGED warned

\* the spellings of the known unit tokens a header may carry, by the key of
\* conversionFactors they name ("ug/L" is micrograms per litre)
UnitSpellings ==
  [ppm |-> {<<"p", "p", "m">>,
           <<"P", "P", "M">>,
           <<"P", "p", "m">>},
   ppb |-> {<<"p", "p", "b">>,
           <<"P", "P", "B">>},
   mgL |-> {<<"m", "g", "/", "L">>,
           <<"m", "g", "/", "l">>,
           <<"M", "G", "/", "L">>},
   ugL |-> {<<"mu", "g", "/", "L">>,
           <<"mu", "g", "/", "l">>,
           <<"MU", "G", "/", "L">>,
           <<"u", "g", "/", "L">>,
           <<"u", "g", "/", "l">>,
           <<"U", "G", "/", "L">>}]

\* the key of conversionFactors a field of UnitSpellings stands for
UnitKey(field) ==
  CASE field = "ppm" -> "ppm" [] field = "ppb" -> "ppb"
    [] field = "mgL" -> "mg/L" [] field = "ugL" -> "ug/L"

\* a metal header with the unit token in parentheses, or trailing after a space
Parenthesized(token) == <<"A", "s", " ", "(">> \o token \o <<")">>

Trailing(token) == <<"A", "s", " ">> \o token

\* the headers extractUnit is called with on its own
UnitHeaders ==
  {Parenthesized(t) : t \in UNION {UnitSpellings[f] : f \in DOMAIN UnitSpellings}}
  \cup {Trailing(t) : t \in UNION {UnitSpellings[f] : f \in DOMAIN UnitSpellings}}
  \cup {AsHeader, LocationHeader, PbDashHeader}

ExtractUnit ==
  /\ call = "extractUnit"
  /\ Returns(extractUnit(args))
  /\ UNCHANGED warned

YearHeader == <<"Y", "e", "a", "r">>

SamplingYearHeader ==
  <<"S", "a", "m", "p", "l", "i", "n", "g", " ", "Y", "e", "a", "r">>

\* the years new Date().getFullYear() returns in the model
FullYears == {2025, 2026}

\* year cells: empty, numbers around both ends of the range for every clock
\* year, and text that is a year or is not
YearCells ==
  {None, Some(1899), Some(1900), Some(1901), Some(2000),
   Some(2026), Some(2027), Some(2028),
   <<"2", "0", "2", "0">>, <<"1", "9", "0", "0">>, <<"N", "D">>}

\* a row with a year cell, its headers and the year of the clock
YearInputs ==
  [row : {Row("S1", Some(10), Some(20), <<c>>) : c \in YearCells},
   headers : {<<LocationHeader, LatitudeHeader, LongitudeHeader, h>> :
                h \in {YearHeader, SamplingYearHeader}},
   fullYear : FullYears]

\* extractLocationInfo called on its own, for the year it keeps
ExtractYear ==
  /\ call = "extractLocationInfo"
  /\ Returns([year |-> extractYear(args.row, args.headers, args.fullYear)])
  /\ UNCHANGED warned

UHeader == <<"U">>

\* the symbols asked for, spelled as the parser's list spells them
QueryMetals == {"As", "Pb", "U"}

\* an uploaded one-row sheet with a reading in one metal column, and the
\* symbol a query asks for
MetalQueryInputs ==
  [sheet : {Sheet(<<h>>, <<Row("S1", Some(10), Some(10), <<Some(v)>>)>>) :
              h \in {AsPpbHeader, PbPpbHeader, UHeader}, v \in {5, 20}},
   metal : QueryMetals]

\* getPollutionData with ?metal= over the documents of the upload
GetPollutionData ==
  /\ call = "getPollutionData"
  /\ Returns([key |-> getPollutionDataKey(args.metal),
              found |-> find(uploaded(processFile(args.sheet).data),
                             getPollutionDataKey(args.metal))])
  /\ UNCHANGED warned

\* getHeatmapData with ?metric= a metal over the documents of the upload
GetHeatmapData ==
  /\ call = "getHeatmapData"
  /\ Returns([key |-> getHeatmapDataKey(args.metal),
              found |-> find(uploaded(processFile(args.sheet).data),
                             getHeatmapDataKey(args.metal))])
  /\ UNCHANGED warned

\* buildDynamicFilters with metals[metal] and the find that uses its filter
BuildDynamicFilters ==
  /\ call = "buildDynamicFilters"
  /\ Returns([key |-> buildDynamicFiltersKey(args.metal),
              found |-> find(uploaded(processFile(args.sheet).data),
                             buildDynamicFiltersKey(args.metal))])
  /\ UNCHANGED warned

CalcInit ==
  /\ HandlerIdle
  /\ ServicesIdle
  /\ returned = None
  /\ warned = FALSE
  /\ \/ call = "generateOverallAssessment" /\ args \in OverallInputs
     \/ call = "calculateHPI" /\ args \in HeavyMetalInputs
     \/ call = "normalizeToMgL" /\ args \in Readings \cup OtherReadings
     \/ call = "detectHeavyMetalColumns" /\ args \in HeaderRows
     \/ call = "processFile" /\ args \in Sheets
     \/ call = "buildPollutionIndices" /\ args \in RecordInputs
     \/ call = "extractUnit" /\ args \in UnitHeaders
     \/ call = "extractLocationInfo" /\ args \in YearInputs
     \/ call = "getPollutionData" /\ args \in MetalQueryInputs
     \/ call = "getHeatmapData" /\ args \in MetalQueryInputs
     \/ call = "buildDynamicFilters" /\ args \in MetalQueryInputs

CalcNext ==
  \/ GenerateOverallAssessment
  \/ CalculateHPI
  \/ NormalizeToMgL
  \/ DetectHeavyMetalColumns
  \/ ProcessFileOnSheet
  \/ BuildPollutionIndices
  \/ ExtractUnit
  \/ ExtractYear
  \/ GetPollutionData
  \/ GetHeatmapData
  \/ BuildDynamicFilters

CalcSpec == CalcInit /\ [][CalcNext]_vars

\* the number of flags among the five that generateOverallAssessment reads
Flags(results) ==
  (IF results.hpi.interpretation.level = "Unsafe" THEN 1 ELSE 0)
  + (IF results.nemerowIndex.interpretation.level = "High" THEN 1 ELSE 0)
  + (IF results.pollutionLoadIndex.interpretation.level = "Polluted" THEN 1 ELSE 0)
  + (IF \E m \in DOMAIN results.healthRiskIndex :
          results.healthRiskIndex[m].interpretation.level = "Risk" THEN 1 ELSE 0)
  + (IF results.ecologicalRiskIndex.interpretation.level = "High" THEN 1 ELSE 0)

\* C13: generateOverallAssessment returns one risk factor per true flag among
\* the five (the health flag once, however many metals are at Risk), at most
\* five in all, and the tier is Safe for 0, Moderate for 1 or 2 and High for 3
\* or more risk factors.
C13_OverallTier ==
  call = "generateOverallAssessment" /\ returned # None =>
    LET out == returned[1]
        n == Flags(args)
    IN /\ Len(out.riskFactors) = n
       /\ n <= 5
       /\ out.summary = n
       /\ out.riskLevel = (IF n = 0 THEN "Safe"
                           ELSE IF n <= 2 THEN "Moderate" ELSE "High")

\* C13 witness: only the health flag is raised, by three metals, and the tier
\* is Moderate
C13_Witness ==
  /\ call = "generateOverallAssessment" /\ returned # None
  /\ args.hpi.interpretation.level = "Safe"
  /\ args.nemerowIndex.interpretation.level = "Safe"
  /\ args.pollutionLoadIndex.interpretation.level = "Safe"
  /\ args.ecologicalRiskIndex.interpretation.level = "Safe"
  /\ \A m \in HriMetals :
       /\ m \in DOMAIN args.healthRiskIndex
       /\ args.healthRiskIndex[m].interpretation.level = "Risk"
  /\ Len(returned[1].riskFactors) = 1
  /\ returned[1].riskLevel = "Moderate"

\* arithmetic on exact fractions
FracAdd(a, b) == Fraction(a.num * b.den + b.num * a.den, a.den * b.den)

\* the quality rating Q = ((M - ideal) / (permissible - ideal)) * 100 of one
\* reading, M in mg/L and the standard in micrograms per litre
QualityRating(metal, reading) ==
  LET std == drinkingWaterStandards[toUpperCase[metal]]
      factor == conversionFactors[reading.unit]
  IN Fraction((1000 * reading.value * factor.num - std.ideal * factor.den) * 100,
              factor.den * (std.permissible - std.ideal))

\* the sum of weightage * Q over the metals ms of a reading map
RECURSIVE WeightedRatings(_, _)
WeightedRatings(readings, ms) ==
  IF ms = {} THEN Fraction(0, 1)
  ELSE LET m == CHOOSE x \in ms : TRUE
       IN FracAdd(FracScale(drinkingWaterStandards[toUpperCase[m]].weightage,
                            QualityRating(m, readings[m])),
                  WeightedRatings(readings, ms \ {m}))

\* the sum of the weightages of the metals ms
RECURSIVE Weights(_)
Weights(ms) ==
  IF ms = {} THEN 0
  ELSE LET m == CHOOSE x \in ms : TRUE
       IN drinkingWaterStandards[toUpperCase[m]].weightage + Weights(ms \ {m})

\* C14: calculateHPI fails exactly when no metal of the map has a standard
\* entry; otherwise it returns, to two decimals, the weightage-weighted mean
\* of the quality ratings of exactly the metals with a standard entry, counts
\* those metals, and classifies the mean Safe below 100, Warning at 100 and
\* Unsafe above 100.  For As alone at 0.02 mg/L the value is 25, Safe.
C14_HpiWeightedMean ==
  call = "calculateHPI" /\ returned # None =>
    LET out == returned[1]
        ms == {m \in DOMAIN args : toUpperCase[m] \in DOMAIN drinkingWaterStandards}
        sum == WeightedRatings(args, ms)
        mean == Fraction(sum.num, sum.den * Weights(ms))
    IN /\ out.ok <=> ms # {}
       /\ out.ok =>
            /\ out.metalCount = Cardinality(ms)
            /\ out.value = (200 * mean.num + mean.den) \div (2 * mean.den)
            /\ out.interpretation.level =
                 (IF mean.num < 100 * mean.den THEN "Safe"
                  ELSE IF mean.num = 100 * mean.den THEN "Warning" ELSE "Unsafe")
       /\ (DOMAIN args = {"As"} /\ normalizeToMgL(args["As"].value, args["As"].unit)
                                     = Fraction(2, 100))
            => out.ok /\ out.value = 2500 /\ out.interpretation.level = "Safe"

\* C14 witness: lead at its permissible limit next to manganese, which has no
\* standard: the mean is that of lead alone, exactly 100, Warning
C14_Witness ==
  /\ call = "calculateHPI" /\ returned # None
  /\ DOMAIN args = {"Pb", "Mn"}
  /\ args["Pb"] = [value |-> 10, unit |-> "ppb"]
  /\ returned[1].ok /\ returned[1].metalCount = 1
  /\ returned[1].value = 10000
  /\ returned[1].interpretation.level = "Warning"

\* C16 (as the specification states it): normalizeToMgL returns the value
\* times 1 for mg/L and ppm, 0.001 for ppb and ug/L, 1000 for g/L and 1e-6 for
\* ng/L; for any other unit it returns the value unconverted and flags a
\* warning.
C16_NormalizeFactorsAndWarning ==
  call = "normalizeToMgL" /\ returned # None =>
    LET known == {"mg/L", "ppm", "ppb", "ug/L", "g/L", "ng/L"}
        expected ==
          CASE args.unit \in {"mg/L", "ppm"} -> Fraction(args.value, 1)
            [] args.unit \in {"ppb", "ug/L"} -> Fraction(args.value, 1000)
            [] args.unit = "g/L" -> Fraction(args.value * 1000, 1)
            [] args.unit = "ng/L" -> Fraction(args.value, 1000000)
            [] OTHER -> Fraction(args.value, 1)
    IN /\ returned[1] = expected
       /\ args.unit \notin known => warned

\* the conversion part of C16 alone, which the code satisfies
C16_NormalizeFactors ==
  call = "normalizeToMgL" /\ returned # None =>
    returned[1] =
      (CASE args.unit \in {"mg/L", "ppm"} -> Fraction(args.value, 1)
         [] args.unit \in {"ppb", "ug/L"} -> Fraction(args.value, 1000)
         [] args.unit = "g/L" -> Fraction(args.value * 1000, 1)
         [] args.unit = "ng/L" -> Fraction(args.value, 1000000)
         [] OTHER -> Fraction(args.value, 1))

\* whether the function of one index throws on a reading map
IndexFails(index, heavyMetalValues) ==
  CASE index = "hpi" -> ~calculateHPI(heavyMetalValues).ok
    [] index = "nemerowIndex" -> ~calculateNemerowIndex(heavyMetalValues).ok
    [] index = "contaminationFactors" ->
         ~calculateContaminationFactors(heavyMetalValues).ok
    [] index = "pollutionLoadIndex" -> ~calculatePLI(heavyMetalValues).ok
    [] index = "geoaccumulationIndex" ->
         ~calculateGeoaccumulationIndex(heavyMetalValues).ok
    [] index = "ecologicalRiskIndex" ->
         ~calculateEcologicalRiskIndex(heavyMetalValues).ok
    [] index = "healthRiskIndex" -> ~calculateHealthRiskIndex(heavyMetalValues).ok

\* C15 (as the specification states it): for a record with readings, every
\* index whose own calculation does not fail is reported in the record's
\* document, whether or not another index failed.
C15_IndexFailureIsolated ==
  \A r \in Reqs :
    InFlight(r) =>
      \A i \in DOMAIN parseResult[r].data :
        LET record == parseResult[r].data[i]
            doc == processedRecords[r][i]
        IN DOMAIN record.heavyMetals # {} =>
             \A index \in sevenIndices :
               ~IndexFails(index, record.heavyMetals)
                 => index \in doc.pollutionIndices.reported


\* the warnings of validateRecord are attached to the document of a record
WarningsAttached(record, doc) ==
  /\ doc.rowNumber = record.rowNumber
  /\ doc.qualityFlags.anomalies = validateRecord(record).errors
  /\ doc.processing.processingErrors = validateRecord(record).errors

\* C17 (as the specification states it): every record processFile returned is
\* submitted for persistence with the warnings of validateRecord attached,
\* whatever they are, and a record with warnings is not discarded afterwards:
\* when the bulk insert raised no error, its document is in the store.
C17_ValidatedRecordsKept ==
  \A r \in Reqs :
    pc[r] = "respond" /\ insertError[r] = NoError =>
      /\ Len(processedRecords[r]) = Len(parseResult[r].data)
      /\ \A i \in DOMAIN parseResult[r].data :
           LET record == parseResult[r].data[i]
           IN /\ WarningsAttached(record, processedRecords[r][i])
              /\ ~validateRecord(record).isValid =>
                   \E s \in storedBy(r) : s.doc.rowNumber = record.rowNumber

\* the submission half of C17 on its own: once the record loop is over, the
\* batch holds one document per extracted record, warnings attached
C17_EveryRecordSubmitted ==
  \A r \in Reqs :
    InFlight(r) =>
      /\ Len(processedRecords[r]) = Len(parseResult[r].data)
      /\ \A i \in DOMAIN parseResult[r].data :
           WarningsAttached(parseResult[r].data[i], processedRecords[r][i])


\* C18 (as the specification states it): whatever the store answered during
\* one upload, the records that upload stored under its file hash are never
\* more than the records the extractor produced for it.
C18_RowsWrittenAtMostOnce ==
  \A r \in Reqs :
    Cardinality({s \in storedBy(r) : s.doc.processing.fileHash = fileMetadata[r].hash})
      <= Len(parseResult[r].data)


\* C19 (as the specification states it): in the result of
\* detectHeavyMetalColumns no header column is bound to more than one metal
\* symbol.
C19_HeaderBoundToOneSymbol ==
  call = "detectHeavyMetalColumns" /\ returned # None =>
    LET metalColumns == returned[1].metalColumns
    IN \A i \in 1 .. Len(args) :
         Cardinality({m \in DOMAIN metalColumns : metalColumns[m].index = i - 1}) <= 1

\* C20 (as the specification states it): of the rows of a sheet, processFile
\* rejects exactly those without a location name or with neither coordinate
\* resolved (a coordinate cell is resolved when it parses to a number); every
\* other row yields a record.
C20_RejectedExactlyWithoutLocation ==
  call = "processFile" /\ returned # None =>
    \A i \in DOMAIN args.rows :
      LET locationInfo == extractLocationInfo(args.rows[i], args.headers)
          rejected == \E e \in DOMAIN returned[1].errors :
                        returned[1].errors[e].row = i + 1
          accepted == \E d \in DOMAIN returned[1].data :
                        returned[1].data[d].rowNumber = i + 1
      IN /\ rejected <=> \/ locationInfo.name = ""
                         \/ /\ locationInfo.latitude = None
                            /\ locationInfo.longitude = None
         /\ accepted <=> ~rejected

\* C21 (as the specification states it): when every reading of a record is
\* non-negative and its assessment succeeds, the hmpi value put in the
\* document is non-negative, as pollutionDataSchema requires.
C21_StoredHmpiNonNegative ==
  /\ call = "buildPollutionIndices"
  /\ returned # None
  /\ \A m \in DOMAIN args.heavyMetals : args.heavyMetals[m].value >= 0
  /\ calculateComprehensiveAssessment(args.heavyMetals).ok
  => /\ returned[1].hmpi.value # None
     /\ returned[1].hmpi.value[1] >= 0

\* C22 (as the specification states it): for a header that carries a known
\* unit token, in parentheses or trailing, in any letter case, extractUnit
\* returns the key of the conversion table that the token names; for a header
\* without a unit token it returns ppm.
C22_CanonicalUnit ==
  call = "extractUnit" /\ returned # None =>
    /\ \A f \in DOMAIN UnitSpellings :
         \A t \in UnitSpellings[f] :
           args \in {Parenthesized(t), Trailing(t)} =>
             /\ returned[1] = UnitKey(f)
             /\ returned[1] \in DOMAIN conversionFactors
    /\ args \in {AsHeader, LocationHeader} => returned[1] = "ppm"

\* C23: a metal cell that is empty, parses to no number or parses to a
\* negative number is left out of the row's heavyMetals without an entry in
\* errors and without losing the row: processFile on rows that all have a
\* location returns one record per row and no error, every reading of every
\* record is >= 0, and validateRecord raises no "Negative value" for it.
C23_BadCellsSilentlyExcluded ==
  call = "processFile" /\ returned # None /\ returned[1].success =>
    /\ \A i \in 1 .. Len(returned[1].data) :
         /\ \A m \in DOMAIN returned[1].data[i].heavyMetals :
              returned[1].data[i].heavyMetals[m].value >= 0
         /\ \A e \in 1 .. Len(validateRecord(returned[1].data[i]).errors) :
              validateRecord(returned[1].data[i]).errors[e] # "Negative value"
    /\ (\A i \in 1 .. Len(args.rows) : args.rows[i] \in CellRows) =>
         /\ returned[1].errors = <<>>
         /\ Len(returned[1].data) = Len(args.rows)
         /\ \A i \in 1 .. Len(args.rows) :
              args.rows[i][4] \in {None, Some(-5), <<"N", "D">>, <<"-", "5">>}
                <=> returned[1].data[i].heavyMetals = <<>>

C23_Witness ==
  /\ call = "processFile" /\ returned # None
  /\ args.rows = <<Row("S1", Some(10), Some(10), <<Some(-5)>>),
                   Row("S1", Some(10), Some(10), <<<<"N", "D">>>>)>>
  /\ Len(returned[1].data) = 2 /\ returned[1].errors = <<>>
  /\ returned[1].data[1].heavyMetals = <<>>

\* C24: extractLocationInfo keeps the year cell exactly when it reads as a
\* number that lies in 1900 .. current year + 1, both ends included, and
\* keeps no year otherwise.
C24_YearKeptExactlyInRange ==
  call = "extractLocationInfo" /\ returned # None =>
    LET numValue == parseInt(args.row[4])
    IN IF /\ args.row[4] # None /\ numValue # None
          /\ numValue[1] >= 1900 /\ numValue[1] <= args.fullYear + 1
       THEN returned[1].year = numValue
       ELSE returned[1].year = None

\* C25: processFile accounts for every data row exactly once. The row at
\* position i of the sheet (row number i + 1 of the file, the header being
\* row 1) is the row of exactly one record of data or of exactly one entry
\* of errors, never of both; totalRows = processedRows + errorRows; and the
\* row numbers of data increase.
C25_EveryRowAccountedOnce ==
  call = "processFile" /\ returned # None /\ returned[1].success =>
    /\ \A i \in 1 .. Len(args.rows) :
         Cardinality({k \in 1 .. Len(returned[1].data) :
                        returned[1].data[k].rowNumber = i + 1})
         + Cardinality({k \in 1 .. Len(returned[1].errors) :
                          returned[1].errors[k].row = i + 1}) = 1
    /\ \A k \in 1 .. Len(returned[1].data) :
         returned[1].data[k].rowNumber \in 2 .. Len(args.rows) + 1
    /\ \A k \in 1 .. Len(returned[1].errors) :
         returned[1].errors[k].row \in 2 .. Len(args.rows) + 1
    /\ returned[1].totalRows = Len(args.rows)
    /\ returned[1].totalRows
         = returned[1].processedRows + returned[1].errorRows
    /\ returned[1].processedRows = Len(returned[1].data)
    /\ returned[1].errorRows = Len(returned[1].errors)
    /\ \A j, k \in 1 .. Len(returned[1].data) :
         j < k => returned[1].data[j].rowNumber < returned[1].data[k].rowNumber

C25_Witness ==
  /\ call = "processFile" /\ returned # None /\ returned[1].success
  /\ Len(args.rows) = 2
  /\ returned[1].processedRows = 1 /\ returned[1].errorRows = 1
  /\ returned[1].errors[1].row = 2 /\ returned[1].data[1].rowNumber = 3

C25_WitnessOrdered ==
  /\ call = "processFile" /\ returned # None /\ returned[1].success
  /\ Len(returned[1].data) = 2
  /\ returned[1].data[1].rowNumber = 2 /\ returned[1].data[2].rowNumber = 3

\* C26: the result of detectHeavyMetalColumns is self-consistent:
\* detectedMetals holds no symbol twice, its symbols are exactly the keys of
\* metalColumns, and totalDetected is the number of entries of metalColumns.
C26_DetectionSelfConsistent ==
  call = "detectHeavyMetalColumns" /\ returned # None =>
    /\ \A j, k \in 1 .. Len(returned[1].detectedMetals) :
         j # k => returned[1].detectedMetals[j] # returned[1].detectedMetals[k]
    /\ {returned[1].detectedMetals[k] :
          k \in 1 .. Len(returned[1].detectedMetals)}
         = DOMAIN returned[1].metalColumns
    /\ returned[1].totalDetected = Cardinality(DOMAIN returned[1].metalColumns)

\* C27: the quality flags of every document built from a record agree with
\* one another and with the validator: anomalies are the validator's errors,
\* isValidated holds exactly when there is none, hasAnomalies is its
\* negation, processingErrors has one entry per anomaly, and confidence is
\* 1 for a validated record and 1/2 for any other.
C27_QualityFlagsAgree ==
  \A r \in Reqs : \A k \in 1 .. Len(processedRecords[r]) :
    LET doc == processedRecords[r][k]
    IN /\ doc.qualityFlags.anomalies = validateRecord(doc).errors
       /\ doc.qualityFlags.isValidated <=> validateRecord(doc).errors = <<>>
       /\ doc.qualityFlags.isValidated <=> doc.qualityFlags.anomalies = <<>>
       /\ doc.qualityFlags.hasAnomalies <=> ~doc.qualityFlags.isValidated
       /\ Len(doc.processing.processingErrors) = Len(doc.qualityFlags.anomalies)
       /\ \A e \in 1 .. Len(doc.qualityFlags.anomalies) :
            doc.processing.processingErrors[e] = doc.qualityFlags.anomalies[e]
       /\ doc.qualityFlags.confidence
            = IF doc.qualityFlags.isValidated
              THEN [num |-> 1, den |-> 1] ELSE [num |-> 1, den |-> 2]

C27_Witness ==
  \E r \in Reqs :
    /\ Len(processedRecords[r]) = 2
    /\ ~processedRecords[r][1].qualityFlags.isValidated
    /\ processedRecords[r][1].qualityFlags.anomalies = <<"Invalid longitude value">>
    /\ Len(processedRecords[r][1].processing.processingErrors) = 1
    /\ processedRecords[r][2].qualityFlags.isValidated

\* C28: a reading the upload stores under a metal is found by the queries
\* that select on that metal: for the symbol X asked for, the path of the
\* stored reading (heavyMetals.X, and heavyMetals.X.value for the dynamic
\* filter) is the path the query builds, and every uploaded document with a
\* reading for X is among the documents found.
C28_StoredKeyIsQueriedKey ==
  call \in {"getPollutionData", "getHeatmapData", "buildDynamicFilters"}
  /\ returned # None =>
    \A doc \in uploaded(processFile(args.sheet).data) :
      args.metal \in DOMAIN doc.heavyMetals =>
        /\ returned[1].key[2] = args.metal
        /\ doc \in returned[1].found

\* ------------------------------------------------------------------------
\* The calculator's caches: getHeavyMetalStandards, getFormulaConfig and
\* clearCache called one after another while the clock advances and the
\* collections change.

\* the longest time the clock runs, in minutes
MaxMinutes == 6

\* what the HeavyMetalStandard collection can hold
StandardsCollections ==
  {{[metal |-> "As", standardValue |-> 10, unit |-> "ppb",
     isActive |-> TRUE, category |-> "BIS"],
    [metal |-> "Pb", standardValue |-> 10, unit |-> "ppb",
     isActive |-> FALSE, category |-> "BIS"]},
   {[metal |-> "As", standardValue |-> 50, unit |-> "ppb",
     isActive |-> TRUE, category |-> "BIS"],
    [metal |-> "Pb", standardValue |-> 10, unit |-> "ppb",
     isActive |-> TRUE, category |-> "WHO"]}}

\* what FormulaConfig.getActiveFormulaByType can find: no active formula, or
\* one of two versions
ActiveFormulas ==
  {None, Some([type |-> "HMPI", version |-> 1]),
   Some([type |-> "HMPI", version |-> 2])}

\* lines 58-71: the Map built from the active standards of the category
standardsMap(standards, category) ==
  [m \in {toUpperCase[d.metal] :
            d \in {e \in standards : e.isActive /\ e.category = category}} |->
     LET standard == CHOOSE d \in standards :
                       /\ d.isActive /\ d.category = category
                       /\ toUpperCase[d.metal] = m
     IN [value |-> standard.standardValue, unit |-> standard.unit]]

CacheInit ==
  /\ HandlerIdle
  /\ call = "" /\ args = None /\ returned = None /\ warned = FALSE
  /\ standardsCache = [k \in StandardsKeys |-> None]
  /\ formulaCache = [k \in FormulaKeys |-> None]
  /\ now = 0
  /\ collections \in [standards : StandardsCollections, formula : ActiveFormulas]
  /\ isConnected = TRUE /\ retryCount = 0 /\ connectPc = "returned"
  /\ attempts = 1
  /\ deployment = [initConfig |-> TRUE, problematicIndex |-> FALSE]

\* the variables the cache functions leave alone
outsideCaches ==
  <<handler, warned, isConnected, retryCount, connectPc, attempts, deployment>>

\* a caller calls one of the three functions
InvokeCalculator ==
  /\ call = "" \/ returned # None
  /\ \/ call' = "getHeavyMetalStandards" /\ args' \in Categories
     \/ call' = "getFormulaConfig" /\ args' \in FormulaTypes
     \/ call' = "clearCache" /\ args' = None
  /\ returned' = None
  /\ UNCHANGED <<standardsCache, formulaCache, now, collections, outsideCaches>>

\* lines 49-81; the find either resolves with the documents of the
\* collection or rejects
GetHeavyMetalStandards ==
  /\ call = "getHeavyMetalStandards" /\ returned = None
  /\ IF servedFromCache(standardsCache[standardsKey(args)], now)
     THEN /\ returned' = Some([ok |-> TRUE, queried |-> FALSE,
                               data |-> standardsCache[standardsKey(args)][1].data])
          /\ UNCHANGED standardsCache
     ELSE \/ /\ standardsCache' =
                  cacheSet(standardsCache, standardsKey(args),
                           standardsMap(collections.standards, args), now)
             /\ returned' = Some([ok |-> TRUE, queried |-> TRUE,
                                  data |-> standardsMap(collections.standards, args)])
          \/ /\ returned' = Some([ok |-> FALSE, queried |-> TRUE,
                                  data |-> "Failed to fetch heavy metal standards"])
             /\ UNCHANGED standardsCache
  /\ UNCHANGED <<call, args, formulaCache, now, collections, outsideCaches>>

\* lines 86-110; the query rejects, finds no active formula, or finds one
GetFormulaConfig ==
  /\ call = "getFormulaConfig" /\ returned = None
  /\ IF servedFromCache(formulaCache[formulaKey(args)], now)
     THEN /\ returned' = Some([ok |-> TRUE, queried |-> FALSE,
                               data |-> formulaCache[formulaKey(args)][1].data])
          /\ UNCHANGED formulaCache
     ELSE \/ /\ collections.formula # None
             /\ formulaCache' = cacheSet(formulaCache, formulaKey(args),
                                         collections.formula[1], now)
             /\ returned' = Some([ok |-> TRUE, queried |-> TRUE,
                                  data |-> collections.formula[1]])
          \/ /\ returned' = Some([ok |-> FALSE, queried |-> TRUE,
                                  data |-> "Failed to fetch formula configuration"])
             /\ UNCHANGED formulaCache
  /\ UNCHANGED <<call, args, standardsCache, now, collections, outsideCaches>>

\* lines 673-676
ClearCache ==
  /\ call = "clearCache" /\ returned = None
  /\ standardsCache' = cleared(standardsCache)
  /\ formulaCache' = cleared(formulaCache)
  /\ returned' = Some([ok |-> TRUE, queried |-> FALSE, data |-> None])
  /\ UNCHANGED <<call, args, now, collections, outsideCaches>>

\* a minute passes
Tick ==
  /\ now < MaxMinutes * 60 * 1000
  /\ now' = now + 60 * 1000
  /\ UNCHANGED <<call, args, returned, standardsCache, formulaCache, collections,
                 outsideCaches>>

\* an administrator changes the standards or the active formula
UpdateCollections ==
  /\ collections' \in [standards : StandardsCollections, formula : ActiveFormulas]
  /\ collections' # collections
  /\ UNCHANGED <<call, args, returned, standardsCache, formulaCache, now,
                 outsideCaches>>

CacheNext ==
  \/ InvokeCalculator
  \/ GetHeavyMetalStandards
  \/ GetFormulaConfig
  \/ ClearCache
  \/ Tick
  \/ UpdateCollections

CacheSpec == CacheInit /\ [][CacheNext]_vars

\* C29: getHeavyMetalStandards and getFormulaConfig answer from the cache,
\* without a query, exactly when the key has an entry whose age is strictly
\* less than 5 minutes; otherwise they query, and a successful query puts the
\* fresh value with the current time in the entry. A failed query, or no
\* active formula, is an error that leaves the cache as it was. clearCache
\* empties both caches.
C29_CachedExactlyWhileFresh ==
  [][returned = None /\ returned' # None =>
       LET cache == IF call = "getHeavyMetalStandards"
                    THEN standardsCache ELSE formulaCache
           after == IF call = "getHeavyMetalStandards"
                    THEN standardsCache' ELSE formulaCache'
           key == IF call = "getHeavyMetalStandards"
                  THEN <<"standards", args>> ELSE <<"formula", args>>
           fresh == cache[key] # None
                    /\ now - cache[key][1].timestamp < 5 * 60 * 1000
       IN /\ call = "clearCache" =>
               /\ \A k \in DOMAIN standardsCache' : standardsCache'[k] = None
               /\ \A k \in DOMAIN formulaCache' : formulaCache'[k] = None
          /\ call \in {"getHeavyMetalStandards", "getFormulaConfig"} =>
               /\ returned'[1].queried <=> ~fresh
               /\ fresh => /\ returned'[1].ok
                           /\ returned'[1].data = cache[key][1].data
                           /\ after = cache
               /\ ~fresh /\ returned'[1].ok =>
                    /\ after[key] = Some([data |-> returned'[1].data,
                                          timestamp |-> now])
                    /\ \A k \in DOMAIN cache \ {key} : after[k] = cache[k]
                    /\ call = "getFormulaConfig" =>
                         collections.formula = Some(returned'[1].data)
                    /\ call = "getHeavyMetalStandards" =>
                         returned'[1].data
                           = standardsMap(collections.standards, args)
               /\ ~returned'[1].ok => after = cache
               /\ (call = "getFormulaConfig" /\ ~fresh
                   /\ collections.formula = None) => ~returned'[1].ok
          /\ call = "getHeavyMetalStandards" => formulaCache' = formulaCache
          /\ call = "getFormulaConfig" => standardsCache' = standardsCache]_vars

\* a stale value is served from the cache one minute before it expires
C29_Witness ==
  /\ call = "getFormulaConfig" /\ returned # None
  /\ returned[1].ok /\ ~returned[1].queried
  /\ now - formulaCache[<<"formula", "HMPI">>][1].timestamp = 4 * 60 * 1000
  /\ collections.formula # Some(returned[1].data)

\* ------------------------------------------------------------ database.js
\* DatabaseConnection.connect(), step by step between its awaits.

\* line 11
maxRetries == 5

\* line 12
retryDelay == 5000

\* the test of line 60 with <= for <
mayRetryOnceMore(count) == count <= maxRetries

\* line 60: this.retryCount < this.maxRetries
mayRetry(count) == count < maxRetries

\* the object after construction, in a deployment with or without
\* INIT_CONFIG, the problematic index and an active formula
ConnectInit ==
  /\ HandlerIdle
  /\ call = "connect" /\ args = None /\ returned = None /\ warned = FALSE
  /\ standardsCache = [k \in StandardsKeys |-> None]
  /\ formulaCache = [k \in FormulaKeys |-> None]
  /\ now = 0
  /\ collections \in
       [standards : StandardsCollections,
        formula : {None, Some([type |-> "HMPI", version |-> 1])}]
  /\ isConnected = FALSE
  /\ retryCount = 0
  /\ connectPc = "idle"
  /\ attempts = 0
  /\ deployment \in [initConfig : BOOLEAN, problematicIndex : BOOLEAN]

\* the variables connect() leaves alone
outsideConnection ==
  <<handler, call, args, warned, standardsCache, formulaCache>>

\* server.js calls dbConnection.connect(): lines 18-38
Connect ==
  /\ connectPc = "idle"
  /\ connectPc' = "connecting"
  /\ attempts' = 0
  /\ UNCHANGED <<isConnected, retryCount, now, collections, deployment, returned,
                 outsideConnection>>

\* lines 39-44: mongoose.connect resolves
ConnectResolves ==
  /\ connectPc = "connecting"
  /\ attempts' = attempts + 1
  /\ isConnected' = TRUE
  /\ retryCount' = 0
  /\ connectPc' = "cleanup"
  /\ UNCHANGED <<now, collections, deployment, returned, outsideConnection>>

\* lines 56-69: mongoose.connect rejects; the catch block schedules a retry
\* or exits the process
ConnectRejects ==
  /\ connectPc = "connecting"
  /\ attempts' = attempts + 1
  /\ isConnected' = FALSE
  /\ IF mayRetry(retryCount)
     THEN /\ retryCount' = retryCount + 1
          /\ connectPc' = "waiting"
     ELSE /\ connectPc' = "exited"
          /\ UNCHANGED retryCount
  /\ UNCHANGED <<now, collections, deployment, returned, outsideConnection>>

\* lines 64-65: the timer fires and connect() is called again
RetryTimer ==
  /\ connectPc = "waiting"
  /\ now' = now + retryDelay
  /\ connectPc' = "connecting"
  /\ UNCHANGED <<isConnected, retryCount, attempts, collections, deployment,
                 returned, outsideConnection>>

\* lines 47-54 and 94-124: cleanupProblematicIndexes drops the index, or
\* catches the error of a step that failed; then connect() goes on to the
\* configurations or returns true
CleanupProblematicIndexes ==
  /\ connectPc = "cleanup"
  /\ \/ deployment' = [deployment EXCEPT !.problematicIndex = FALSE]
     \/ UNCHANGED deployment
  /\ IF deployment.initConfig
     THEN connectPc' = "initializing" /\ UNCHANGED returned
     ELSE connectPc' = "returned" /\ returned' = Some(TRUE)
  /\ UNCHANGED <<isConnected, retryCount, attempts, now, collections,
                 outsideConnection>>

\* lines 51-54 and 76-89: initializeConfigurations adds the default formula
\* where there is none, or catches the error; connect() returns true
InitializeConfigurations ==
  /\ connectPc = "initializing"
  /\ \/ collections' =
          [collections EXCEPT
             !.formula = IF @ = None
                         THEN Some([type |-> "HMPI", version |-> 1]) ELSE @]
     \/ UNCHANGED collections
  /\ connectPc' = "returned"
  /\ returned' = Some(TRUE)
  /\ UNCHANGED <<isConnected, retryCount, attempts, now, deployment,
                 outsideConnection>>

ConnectNext ==
  \/ Connect
  \/ ConnectResolves
  \/ ConnectRejects
  \/ RetryTimer
  \/ CleanupProblematicIndexes
  \/ InitializeConfigurations

\* every await of connect() settles: mongoose.connect within
\* serverSelectionTimeoutMS, the timer after retryDelay, the operations of
\* the cleanup and of the initialization within socketTimeoutMS
ConnectSpec == ConnectInit /\ [][ConnectNext]_vars /\ WF_vars(ConnectNext)

\* C30: connect() always terminates. It makes at most maxRetries + 1 = 6
\* attempts in a row; it ends connected, with isConnected true and
\* retryCount back at 0, or it exits the process after the fifth retry has
\* failed; and isConnected is false after every failed attempt.
C30_ConnectTerminates ==
  /\ [](attempts <= 6)
  /\ [](connectPc \in {"cleanup", "initializing", "returned"} =>
          isConnected /\ retryCount = 0)
  /\ [](connectPc = "returned" => returned = Some(TRUE))
  /\ [](connectPc = "exited" =>
          attempts = 6 /\ retryCount = 5 /\ ~isConnected)
  /\ [](connectPc = "waiting" \/ (connectPc = "connecting" /\ attempts > 0) =>
          ~isConnected /\ retryCount = attempts)
  /\ <>(connectPc \in {"returned", "exited"})

\* the process exits after the sixth attempt failed
C30_Witness ==
  /\ connectPc = "exited" /\ attempts = 6 /\ retryCount = 5 /\ ~isConnected
  /\ now = 5 * 5000

====
